---- MODULE Spec2Model ----
(***************************************************************************)
(* O2Land RHT Daikin control: the Particle controller sketches (V3, V5,    *)
(* V6, V7) as state machines.  One set of variables holds the globals of   *)
(* a sketch; each variant has its own loop() and myHandler() actions and   *)
(* its own specification.                                                  *)
(*                                                                         *)
(* Temperatures, humidity and heat index are floats with two decimals in   *)
(* the source; they are held here in hundredths (26.50 is 2650).  Strings  *)
(* are sequences of one-character strings, indexed from 0 by the String    *)
(* operators as in the source.  Times are in milliseconds.                 *)
(***************************************************************************)
EXTENDS Integers, Sequences, FiniteSets, TLC

VARIABLES
    currentMode,               \* int currentMode
    elapsed_remain_mode_timer, \* elapsedMillis elapsed_remain_mode_timer
    recvLine,                  \* String recvLine
    currentTemp,               \* float currentTemp (hundredths)
    currentRh,                 \* float currentRh (hundredths)
    currentHI,                 \* float currentHI (hundredths)
    currentReadCount,          \* unsigned int currentReadCount
    daikin_boost,              \* bool daikin_boost (V3, V5)
    rht_control_on,            \* bool rht_control_on
    autoOffTimerHour,          \* int autoOffTimerHour
    autoOnTimerHour,           \* int autoOnTimerHour (V3, V5)
    current_H_hours,           \* bool current_H_hours (V3, V5)
    currentACsetting,          \* unsigned int currentACsetting (V5, V6, V7)
    currentFANsetting,         \* unsigned int currentFANsetting (V6, V7)
    last10minTemps,            \* float last10minTemps[10] (V5, V6)
    auto_pause,                \* bool auto_pause (V6, V7)
    auto_cooling,              \* bool auto_cooling (V6)
    auto_reenable_rht,         \* bool auto_reenable_rht (V7)
    DHNeedAC,                  \* bool DHNeedAC (V7)
    timeElapsedDHCheck,        \* elapsedMillis timeElapsedDHCheck (V7)
    rhtDisabled,               \* bool rhtDisabled (V1)
    elapsed_must_off_timer,    \* elapsedMillis elapsed_must_off_timer (V1)
    elapsed_keep_onoff_timer,  \* elapsedMillis elapsed_keep_onoff_timer (V1)
    elapsed_exterem_cond_timer, \* elapsedMillis elapsed_exterem_cond_timer (V1)
    current_temp_mode1,        \* bool current_temp_mode1 (V1)
    current_fan_mode_on,       \* bool current_fan_mode_on (V1)
    ac_already_off,            \* bool ac_already_off (V1)
    clockHour,                 \* Time.hour()
    clockMinute,               \* Time.minute()
    dispatch,                  \* the dispatcher that is running: its name,
                               \* its position, its local repeat, and the
                               \* milliseconds it has spent in delay()
    serialIn,                  \* the bytes the last operation read from Serial1
    serialOut,                 \* the tokens the last operation wrote to Serial1
    fired,                     \* the branches the last operation took
    modeBefore,                \* currentMode when the last operation began
    quiet,                     \* no remote command was handled and no auto-on
                               \* fired since the last mode-changing command
    quietBefore,               \* quiet when the last operation began
    lastTickCommand,           \* V1: the milliseconds since a tick last
                               \* dispatched a mode command (or since the
                               \* restart), and what last wrote the on-off
                               \* timer: a dispatch, the bypass of an extreme
                               \* condition, or a remote command
    lastOp                     \* the last operation: setup, loop, myHandler, elapse

vars == << currentMode, elapsed_remain_mode_timer, recvLine, currentTemp,
           currentRh, currentHI, currentReadCount, daikin_boost,
           rht_control_on, autoOffTimerHour, autoOnTimerHour, current_H_hours,
           currentACsetting, currentFANsetting, last10minTemps, auto_pause,
           auto_cooling, auto_reenable_rht, DHNeedAC, timeElapsedDHCheck,
           rhtDisabled, elapsed_must_off_timer, elapsed_keep_onoff_timer,
           elapsed_exterem_cond_timer, current_temp_mode1,
           current_fan_mode_on, ac_already_off,
           clockHour, clockMinute, dispatch, serialIn, serialOut, fired,
           modeBefore, quiet, quietBefore, lastTickCommand, lastOp >>

\* the globals that only the first sketch (V1) has
Sketch1Globals ==
    << rhtDisabled, elapsed_must_off_timer, elapsed_keep_onoff_timer,
       elapsed_exterem_cond_timer, current_temp_mode1, current_fan_mode_on,
       ac_already_off >>

----------------------------------------------------------------------------
(* Program constants shared by the variants.                               *)

MODE_OFF == 0
MODE_COOLING == 1
MODE_DEHUMIDIFIER == 2
MODE_FAN == 3
IR_REPEAT == 3
MS_PER_MINUTE == 60000
TIMER_DISABLED == 25
MUST_OFF_TIMER == 720
KEEP_ONOFF_TIMER == 25
AC_START_TEMP == 26
AC_SETTING_HIGH == 26
AC_SETTING_LOW == 24

(* Bounds of the model.                                                    *)

\* one Elapse step of the free-running timers, in ms (4.5 minutes)
StepMs == 270000
\* the timers saturate here (18 minutes): above every dwell threshold
MaxTimerMs == 1080000
\* the sensor lines a V5 or V6 model run receives
MaxReadCount == 2

----------------------------------------------------------------------------
(* Arduino String operations on sequences of characters (0-based).         *)

Min(a, b) == IF a < b THEN a ELSE b

Digits == <<"0", "1", "2", "3", "4", "5", "6", "7", "8", "9">>

IsDigit(c) == \E i \in 1..10 : Digits[i] = c

DigitVal(c) == (CHOOSE i \in 1..10 : Digits[i] = c) - 1

\* String::indexOf(pat): the first 0-based position of pat in s, or -1
IndexOf(s, pat) ==
    LET hits == { i \in 0..(Len(s) - Len(pat)) :
                    SubSeq(s, i + 1, i + Len(pat)) = pat }
    IN IF hits = {} THEN -1
       ELSE CHOOSE i \in hits : \A j \in hits : i <= j

\* String::substring(left): from the 0-based position left to the end
SubstringFrom(s, left) ==
    IF left >= Len(s) THEN << >> ELSE SubSeq(s, left + 1, Len(s))

\* String::substring(left, right): positions left .. right-1, the two
\* swapped when left > right, right clipped to the length
Substring(s, left, right) ==
    LET lo == Min(left, right)
        hi0 == IF left > right THEN left ELSE right
        hi == Min(hi0, Len(s))
    IN IF lo >= Len(s) THEN << >> ELSE SubSeq(s, lo + 1, hi)

\* the length of the longest prefix of s made of digits
RECURSIVE DigitRun(_)
DigitRun(s) ==
    IF s # << >> /\ IsDigit(Head(s)) THEN 1 + DigitRun(Tail(s)) ELSE 0

\* the number written by a sequence of digits (0 for the empty one)
RECURSIVE DigitsVal(_)
DigitsVal(s) ==
    IF s = << >> THEN 0
    ELSE 10 * DigitsVal(SubSeq(s, 1, Len(s) - 1)) + DigitVal(s[Len(s)])

\* String::toInt (atol): an optional sign and the leading digits; 0 when
\* the text does not start with a number
ToInt(s) ==
    LET neg == s # << >> /\ Head(s) = "-"
        body == IF s # << >> /\ Head(s) \in {"-", "+"} THEN Tail(s) ELSE s
        n == DigitsVal(SubSeq(body, 1, DigitRun(body)))
    IN IF neg THEN 0 - n ELSE n

\* String::toFloat (atof), in hundredths: integer digits, then '.' and the
\* fraction digits, of which the first two are kept
ToFloat(s) ==
    LET neg == s # << >> /\ Head(s) = "-"
        body == IF s # << >> /\ Head(s) \in {"-", "+"} THEN Tail(s) ELSE s
        k == DigitRun(body)
        ip == DigitsVal(SubSeq(body, 1, k))
        rest == SubstringFrom(body, k)
        frac == IF rest # << >> /\ Head(rest) = "." THEN Tail(rest) ELSE << >>
        fk == DigitRun(frac)
        d1 == IF fk >= 1 THEN DigitVal(frac[1]) ELSE 0
        d2 == IF fk >= 2 THEN DigitVal(frac[2]) ELSE 0
        v == 100 * ip + 10 * d1 + d2
    IN IF neg THEN 0 - v ELSE v

RECURSIVE Pow2(_)
Pow2(n) == IF n = 0 THEN 1 ELSE 2 * Pow2(n - 1)

\* the sign of float(v / 100) - v / 100 for v > 0 hundredths: a float keeps
\* 24 bits, rounded to nearest (ties to even); 0 when v / 100 is a float
FloatError(v) ==
    LET k == CHOOSE j \in 0..23 :
                 /\ v * Pow2(j) >= 100 * Pow2(23)
                 /\ v * Pow2(j) < 100 * Pow2(24)
        q == v * Pow2(k)
        down == q \div 100
        m == IF 2 * (q % 100) > 100 THEN down + 1
             ELSE IF 2 * (q % 100) < 100 THEN down
             ELSE down + (down % 2)
    IN IF m * 100 > q THEN 1 ELSE IF m * 100 < q THEN -1 ELSE 0

\* x > LITERAL for a float x read from a two-decimal text and a double
\* literal, both in hundredths: x is converted to double for the comparison,
\* so equal texts compare by the rounding error of the float
GtLiteral(x, literal) ==
    x > literal \/ (x = literal /\ x > 0 /\ FloatError(x) > 0)

\* the decimal digits of a natural number
RECURSIVE FmtInt(_)
FmtInt(n) ==
    IF n < 10 THEN << Digits[n + 1] >>
    ELSE FmtInt(n \div 10) \o << Digits[(n % 10) + 1] >>

\* a float appended to a String: two decimals
FmtFloat(v) ==
    FmtInt(v \div 100) \o << "." >>
        \o << Digits[((v % 100) \div 10) + 1], Digits[(v % 10) + 1] >>

CR == "\r"
LF == "\n"

\* the answer of the RHT module to atrt, as println sends it
SensorLine(rh, t, hi, c) ==
    << ">", "R", "=" >> \o FmtFloat(rh) \o << ",", "T", "=" >> \o FmtFloat(t)
        \o << ",", "H", "=" >> \o FmtFloat(hi) \o << ",", "C", "=" >>
        \o FmtInt(c) \o << CR, LF >>

----------------------------------------------------------------------------
(* The globals of a sketch as one record, so that the functions of the     *)
(* sketch are operators from state to state.                               *)

Cur ==
    [ currentMode |-> currentMode,
      elapsed_remain_mode_timer |-> elapsed_remain_mode_timer,
      recvLine |-> recvLine,
      currentTemp |-> currentTemp,
      currentRh |-> currentRh,
      currentHI |-> currentHI,
      currentReadCount |-> currentReadCount,
      daikin_boost |-> daikin_boost,
      rht_control_on |-> rht_control_on,
      autoOffTimerHour |-> autoOffTimerHour,
      autoOnTimerHour |-> autoOnTimerHour,
      current_H_hours |-> current_H_hours,
      currentACsetting |-> currentACsetting,
      currentFANsetting |-> currentFANsetting,
      last10minTemps |-> last10minTemps,
      auto_pause |-> auto_pause,
      auto_cooling |-> auto_cooling,
      auto_reenable_rht |-> auto_reenable_rht,
      DHNeedAC |-> DHNeedAC,
      timeElapsedDHCheck |-> timeElapsedDHCheck,
      rhtDisabled |-> rhtDisabled,
      elapsed_must_off_timer |-> elapsed_must_off_timer,
      elapsed_keep_onoff_timer |-> elapsed_keep_onoff_timer,
      elapsed_exterem_cond_timer |-> elapsed_exterem_cond_timer,
      current_temp_mode1 |-> current_temp_mode1,
      current_fan_mode_on |-> current_fan_mode_on,
      ac_already_off |-> ac_already_off,
      serialIn |-> << >>,
      serialOut |-> << >>,
      fired |-> {} ]

ModeTokens == {"ate1", "atc1", "atm1", "atd0"}

\* how many times token was written by the last operation
Count(out, token) == Cardinality({ i \in 1..Len(out) : out[i] = token })

\* the last operation sent a mode-changing command
SentModeCommand(out) == \E i \in 1..Len(out) : out[i] \in ModeTokens

\* the globals and the record of the last operation after an operation
\* that ran from Cur to s
CommitGlobals(s, op) ==
    /\ currentMode' = s.currentMode
    /\ elapsed_remain_mode_timer' = s.elapsed_remain_mode_timer
    /\ recvLine' = s.recvLine
    /\ currentTemp' = s.currentTemp
    /\ currentRh' = s.currentRh
    /\ currentHI' = s.currentHI
    /\ currentReadCount' = s.currentReadCount
    /\ daikin_boost' = s.daikin_boost
    /\ rht_control_on' = s.rht_control_on
    /\ autoOffTimerHour' = s.autoOffTimerHour
    /\ autoOnTimerHour' = s.autoOnTimerHour
    /\ current_H_hours' = s.current_H_hours
    /\ currentACsetting' = s.currentACsetting
    /\ currentFANsetting' = s.currentFANsetting
    /\ last10minTemps' = s.last10minTemps
    /\ auto_pause' = s.auto_pause
    /\ auto_cooling' = s.auto_cooling
    /\ auto_reenable_rht' = s.auto_reenable_rht
    /\ DHNeedAC' = s.DHNeedAC
    /\ timeElapsedDHCheck' = s.timeElapsedDHCheck
    /\ rhtDisabled' = s.rhtDisabled
    /\ elapsed_must_off_timer' = s.elapsed_must_off_timer
    /\ elapsed_keep_onoff_timer' = s.elapsed_keep_onoff_timer
    /\ elapsed_exterem_cond_timer' = s.elapsed_exterem_cond_timer
    /\ current_temp_mode1' = s.current_temp_mode1
    /\ current_fan_mode_on' = s.current_fan_mode_on
    /\ ac_already_off' = s.ac_already_off
    /\ serialIn' = s.serialIn
    /\ serialOut' = s.serialOut
    /\ fired' = s.fired
    /\ modeBefore' = currentMode
    /\ quiet' = IF SentModeCommand(s.serialOut) THEN TRUE
                ELSE quiet /\ op = "loop" /\ "autoOn" \notin s.fired
    /\ quietBefore' = quiet
    /\ lastTickCommand' =
           IF op = "loop" /\ SentModeCommand(s.serialOut)
           THEN [ago |-> 0, dwellSetBy |-> "dispatch"]
           ELSE IF "bypass" \in s.fired
           THEN [lastTickCommand EXCEPT !.dwellSetBy = "bypass"]
           ELSE IF "daikinAuto" \in s.fired
           THEN [lastTickCommand EXCEPT !.dwellSetBy = "remote"]
           ELSE lastTickCommand
    /\ lastOp' = op
    /\ UNCHANGED << clockHour, clockMinute >>

\* the state after an operation that ran from Cur to s
Commit(s, op) == CommitGlobals(s, op) /\ UNCHANGED dispatch

\* Serial1.println(token)
Println(s, token) == [s EXCEPT !.serialOut = Append(@, token)]

\* for(repeat = 0; repeat < IR_REPEAT; repeat++) Serial1.println(token)
RECURSIVE SendRepeated(_, _, _)
SendRepeated(s, token, n) ==
    IF n = 0 THEN s ELSE SendRepeated(Println(s, token), token, n - 1)

\* the operation took the branch named tag
Mark(s, tag) == [s EXCEPT !.fired = @ \cup {tag}]

----------------------------------------------------------------------------
(* The dispatchers: the same in every variant.                             *)

daikin_fan_on(s) ==
    [SendRepeated(s, "ate1", IR_REPEAT) EXCEPT
        !.currentMode = MODE_FAN, !.elapsed_remain_mode_timer = 0]

daikin_ac_on(s) ==
    [SendRepeated(s, "atc1", IR_REPEAT) EXCEPT
        !.currentMode = MODE_COOLING, !.elapsed_remain_mode_timer = 0]

\* daikin_dehumidifier_on() that records the cooling mode
daikin_dehumidifier_on_RecordsCooling(s) ==
    [SendRepeated(s, "atm1", IR_REPEAT) EXCEPT
        !.currentMode = MODE_COOLING, !.elapsed_remain_mode_timer = 0]

daikin_dehumidifier_on(s) ==
    [SendRepeated(s, "atm1", IR_REPEAT) EXCEPT
        !.currentMode = MODE_DEHUMIDIFIER, !.elapsed_remain_mode_timer = 0]

\* daikin_off() that forgets to reset the remain_mode_timer
daikin_off_KeepsTimer(s) ==
    [SendRepeated(s, "atd0", IR_REPEAT) EXCEPT !.currentMode = MODE_OFF]

daikin_off(s) ==
    [SendRepeated(s, "atd0", IR_REPEAT) EXCEPT
        !.currentMode = MODE_OFF, !.elapsed_remain_mode_timer = 0]

----------------------------------------------------------------------------
(* The response line parser of loop().                                     *)

\* the fields of a line that starts with ">R=", or ok = FALSE
Extract(line) ==
    LET none == [ok |-> FALSE, rh |-> 0, t |-> 0, hi |-> 0, c |-> 0]
        rIdx == IndexOf(line, << "R", "=" >>)
        rComma == IndexOf(SubstringFrom(line, rIdx), << "," >>)
        tIdx == IndexOf(line, << "T", "=" >>)
        tComma == IndexOf(SubstringFrom(line, tIdx), << "," >>)
        hIdx == IndexOf(line, << "H", "=" >>)
        hComma == IndexOf(SubstringFrom(line, hIdx), << "," >>)
        cIdx == IndexOf(line, << "C", "=" >>)
    IN IF rIdx < 0 THEN none
       ELSE IF rComma < 0 THEN none
       ELSE IF tIdx < 0 THEN none
       ELSE IF tComma < 0 THEN none
       ELSE IF hIdx < 0 THEN none
       ELSE IF hComma < 0 THEN none
       ELSE IF cIdx < 0 THEN none
       ELSE [ ok |-> TRUE,
              rh |-> ToFloat(Substring(line, rIdx + 2, rComma + rIdx)),
              t |-> ToFloat(Substring(line, tIdx + 2, tComma + tIdx)),
              hi |-> ToFloat(Substring(line, hIdx + 2, hComma + hIdx)),
              c |-> ToInt(SubstringFrom(line, cIdx + 2)) ]

\* insert_temperature that keeps the newest value in slot 0
insert_temperature_LatestFirst(s, t) ==
    IF s.last10minTemps[1] = 0
    THEN [s EXCEPT !.last10minTemps = [i \in 1..10 |-> t]]
    ELSE [s EXCEPT !.last10minTemps =
              [i \in 1..10 |-> IF i > 1 THEN s.last10minTemps[i - 1] ELSE t]]

\* insert_temperature(t): seed all ten slots with the first value, else
\* shift down and store at slot 9 (slots are 1..10 here)
insert_temperature(s, t) ==
    IF s.last10minTemps[1] = 0
    THEN [s EXCEPT !.last10minTemps = [i \in 1..10 |-> t]]
    ELSE [s EXCEPT !.last10minTemps =
              [i \in 1..10 |-> IF i < 10 THEN s.last10minTemps[i + 1] ELSE t]]

\* the end of a line without the test of its first three characters
EndOfLine_AnyPrefix(s, track) ==
    LET x == Extract(s.recvLine)
        applied == [s EXCEPT !.currentRh = x.rh, !.currentTemp = x.t,
                             !.currentHI = x.hi,
                             !.currentReadCount = x.c % 65536]
        tracked == IF track /\ applied.currentTemp > 0
                   THEN insert_temperature(applied, applied.currentTemp)
                   ELSE applied
        after == IF x.ok THEN tracked ELSE s
    IN [after EXCEPT !.recvLine = << >>]

\* the line is complete (0x0D was read): apply it if it extracts, clear it
EndOfLine(s, track) ==
    LET x == Extract(s.recvLine)
        applied == [s EXCEPT !.currentRh = x.rh, !.currentTemp = x.t,
                             !.currentHI = x.hi,
                             !.currentReadCount = x.c % 65536]
        tracked == IF track /\ applied.currentTemp > 0
                   THEN insert_temperature(applied, applied.currentTemp)
                   ELSE applied
        after == IF Substring(s.recvLine, 0, 3) = << ">", "R", "=" >> /\ x.ok
                 THEN tracked ELSE s
    IN [after EXCEPT !.recvLine = << >>]

\* every byte of a chunk appended, 0x0A too
WithoutLF_KeepsLF(bytes) == bytes

\* the bytes of a chunk that are appended to the line: all but 0x0A
WithoutLF(bytes) == SelectSeq(bytes, LAMBDA c : c # LF)

\* while (Serial1.available() > 0) { c = Serial1.read(); ... }: the bytes
\* up to the first 0x0D are appended (0x0A ignored), the 0x0D ends the
\* line, and so on with the bytes after it
RECURSIVE ReadBytes(_, _, _)
ReadBytes(s, bytes, track) ==
    LET k == IndexOf(bytes, << CR >>)
    IN IF k < 0
       THEN [s EXCEPT !.recvLine = @ \o WithoutLF(bytes)]
       ELSE ReadBytes(
                EndOfLine([s EXCEPT !.recvLine =
                                 @ \o WithoutLF(SubSeq(bytes, 1, k))], track),
                SubstringFrom(bytes, k + 1), track)

\* the while loop of loop() on the bytes waiting on Serial1
ReadSerial(s, bytes, track) ==
    ReadBytes([s EXCEPT !.serialIn = bytes], bytes, track)

----------------------------------------------------------------------------
(* The environment: time passes between two operations.                    *)

\* an elapsedMillis counter after d more milliseconds (saturating)
Later(t, d) == IF t >= MaxTimerMs THEN t ELSE Min(t + d, MaxTimerMs)

\* the clock values the models visit, in the order of the day: before,
\* at the start of and at the end of the H hours (V3, V5); at the auto
\* pause, at its guard time and after (V6, V7)
ClockHHours == << [h |-> 2, m |-> 0], [h |-> 3, m |-> 0], [h |-> 6, m |-> 0] >>

ClockPause ==
    << [h |-> 3, m |-> 30], [h |-> 3, m |-> 40], [h |-> 4, m |-> 0] >>

NextClock(points) ==
    LET i == CHOOSE j \in 1..Len(points) :
                 points[j] = [h |-> clockHour, m |-> clockMinute]
    IN points[(i % Len(points)) + 1]

\* step milliseconds pass; the wall clock stays or moves to its next point;
\* dhTimer tells whether the sketch has the elapsedMillis timeElapsedDHCheck
Elapse(points, step, dhTimer) ==
    /\ elapsed_remain_mode_timer' = Later(elapsed_remain_mode_timer, step)
    /\ timeElapsedDHCheck' =
           IF dhTimer THEN Later(timeElapsedDHCheck, step) ELSE timeElapsedDHCheck
    /\ \/ UNCHANGED << clockHour, clockMinute >>
       \/ /\ clockHour' = NextClock(points).h
          /\ clockMinute' = NextClock(points).m
    /\ serialIn' = << >>
    /\ serialOut' = << >>
    /\ fired' = {}
    /\ modeBefore' = currentMode
    /\ quietBefore' = quiet
    /\ lastOp' = "elapse"
    /\ UNCHANGED << currentMode, recvLine, currentTemp, currentRh, currentHI,
                    currentReadCount, daikin_boost, rht_control_on,
                    autoOffTimerHour, autoOnTimerHour, current_H_hours,
                    currentACsetting, currentFANsetting, last10minTemps,
                    auto_pause, auto_cooling, auto_reenable_rht, DHNeedAC,
                    dispatch, quiet, lastTickCommand >>
    /\ UNCHANGED Sketch1Globals

\* no dispatcher is running
NoDispatch == [fn |-> "none", pc |-> "idle", repeat |-> 0, delayed |-> 0]

\* the globals as initialised and after setup(), but for the variant's
\* start set-point
Setup(startTemp, points) ==
    /\ currentMode = MODE_OFF
    /\ elapsed_remain_mode_timer = 0
    /\ recvLine = << >>
    /\ currentTemp = 0
    /\ currentRh = 0
    /\ currentHI = 0
    /\ currentReadCount = 0
    /\ daikin_boost = FALSE
    /\ rht_control_on = FALSE
    /\ autoOffTimerHour = TIMER_DISABLED
    /\ autoOnTimerHour = TIMER_DISABLED
    /\ current_H_hours = FALSE
    /\ currentACsetting = startTemp
    /\ currentFANsetting = 6
    /\ last10minTemps = [i \in 1..10 |-> 0]
    /\ auto_pause = FALSE
    /\ auto_cooling = FALSE
    /\ auto_reenable_rht = FALSE
    /\ DHNeedAC = FALSE
    /\ timeElapsedDHCheck = 0
    /\ rhtDisabled = TRUE
    /\ elapsed_must_off_timer = MUST_OFF_TIMER * MS_PER_MINUTE
    /\ elapsed_keep_onoff_timer = 0
    /\ elapsed_exterem_cond_timer = 0
    /\ current_temp_mode1 = TRUE
    /\ current_fan_mode_on = FALSE
    /\ ac_already_off = FALSE
    /\ \E i \in 1..Len(points) :
          /\ clockHour = points[i].h
          /\ clockMinute = points[i].m
    /\ dispatch = NoDispatch
    /\ serialIn = << >>
    /\ serialOut = << >>
    /\ fired = {}
    /\ modeBefore = MODE_OFF
    /\ quiet = TRUE
    /\ quietBefore = TRUE
    /\ lastTickCommand = [ago |-> 0, dwellSetBy |-> "dispatch"]
    /\ lastOp = "setup"

----------------------------------------------------------------------------
(* Remote command payloads.                                                *)

Txt_daikin_auto == << "d", "a", "i", "k", "i", "n", "-", "a", "u", "t", "o" >>
Txt_daikin_off == << "d", "a", "i", "k", "i", "n", "-", "o", "f", "f" >>
Txt_auto_off == << "a", "u", "t", "o", "-", "o", "f", "f", "-" >>
Txt_auto_on == << "a", "u", "t", "o", "-", "o", "n", "-" >>
Txt_cool_on == << "c", "o", "o", "l", "-", "o", "n", "-" >>
Txt_auto_dryer == << "a", "u", "t", "o", "-", "d", "r", "y", "e", "r" >>
Txt_auto_pause == << "a", "u", "t", "o", "-", "p", "a", "u", "s", "e" >>
Txt_more_fan == << "m", "o", "r", "e", "-", "f", "a", "n" >>
Txt_less_fan == << "l", "e", "s", "s", "-", "f", "a", "n" >>
Txt_max_fan == << "m", "a", "x", "-", "f", "a", "n" >>
Txt_quiet_fan == << "q", "u", "i", "e", "t", "-", "f", "a", "n" >>
Txt_too_hot == << "t", "o", "o", "-", "h", "o", "t" >>
Txt_too_cold == << "t", "o", "o", "-", "c", "o", "l", "d" >>
Txt_drying_on == << "d", "r", "y", "i", "n", "g", "-", "o", "n" >>

\* the payload keyword followed by the decimal number n
WithNumber(keyword, n) == keyword \o FmtInt(n)

Has(ingredient, keyword) == IndexOf(ingredient, keyword) > -1

\* the hour an auto-off-<x> / auto-on-<x> payload asks for: the number
\* after the keyword when it is 0..24, else the disabled value 25
ScheduleHour(ingredient, keyword) ==
    LET searchIdx == IndexOf(ingredient, keyword)
        hour == ToInt(SubstringFrom(ingredient, searchIdx + Len(keyword)))
    IN IF hour >= 0 /\ hour <= 24 THEN hour ELSE TIMER_DISABLED

----------------------------------------------------------------------------
(* V3: Particle_O2_Daikin_3.                                               *)

V3_DEH_TEMP == 2650
V3_COLD_HIDX == 2420
V3_DEH_TEMP_H == 2750
V3_COLD_HIDX_H == 2445
V3_REMAIN_MODE_TIME == 5
V3_REMAIN_MODE_TIME_DH == 15
HTEMP_BEGIN_HOUR == 3
HTEMP_END_HOUR == 6

\* unsigned int useRemainModeTime of loop()
V3_useRemainModeTime(mode) ==
    IF mode = MODE_DEHUMIDIFIER THEN V3_REMAIN_MODE_TIME_DH
    ELSE V3_REMAIN_MODE_TIME

\* bool hTempTime of loop()
hTempTime(hour) == hour >= HTEMP_BEGIN_HOUR /\ hour < HTEMP_END_HOUR

\* loop(): track the H hours and switch the temperature setting
V3_TrackHHours(s, hour) ==
    LET sent == IF s.rht_control_on /\ ~s.current_H_hours /\ hTempTime(hour)
                THEN Mark(Println(s, "att26"), "hBegin")
                ELSE IF s.rht_control_on /\ s.current_H_hours
                        /\ ~hTempTime(hour)
                THEN Mark(Println(s, "att25"), "hEnd")
                ELSE s
    IN [sent EXCEPT !.current_H_hours = hTempTime(hour)]

\* loop(): check auto on timer
V3_AutoOn(s, hour) ==
    IF hour = s.autoOnTimerHour
    THEN Mark([s EXCEPT
                 !.elapsed_remain_mode_timer =
                     V3_REMAIN_MODE_TIME * MS_PER_MINUTE,
                 !.currentMode = MODE_OFF,
                 !.daikin_boost = FALSE,
                 !.rht_control_on = TRUE,
                 !.autoOnTimerHour = TIMER_DISABLED], "autoOn")
    ELSE s

\* the auto off timer that leaves boost as it is
V3_AutoOff_KeepsBoost(s, hour) ==
    IF hour = s.autoOffTimerHour
    THEN LET off == IF s.rht_control_on
                    THEN Mark(daikin_off([s EXCEPT !.rht_control_on = FALSE]),
                              "autoOff")
                    ELSE s
         IN [off EXCEPT !.autoOffTimerHour = TIMER_DISABLED]
    ELSE s

\* loop(): check auto off timer
V3_AutoOff(s, hour) ==
    IF hour = s.autoOffTimerHour
    THEN LET off == IF s.rht_control_on
                    THEN Mark(daikin_off([s EXCEPT !.rht_control_on = FALSE,
                                                   !.daikin_boost = FALSE]),
                              "autoOff")
                    ELSE s
         IN [off EXCEPT !.autoOffTimerHour = TIMER_DISABLED]
    ELSE s

\* the dwell check with the dehumidifier's longer time forgotten
V3_DwellElapsed_CoolingOnly(lastCommandSentInMinutes, useRemainModeTime) ==
    lastCommandSentInMinutes >= V3_REMAIN_MODE_TIME

\* loop(): the dwell check of the environmental control
V3_DwellElapsed(lastCommandSentInMinutes, useRemainModeTime) ==
    lastCommandSentInMinutes >= useRemainModeTime

\* the dehumidifier window with its two boundaries left out
V3_InDehWindow_Exclusive(s, hour) ==
    LET coldTemp == IF hTempTime(hour) THEN V3_COLD_HIDX_H ELSE V3_COLD_HIDX
        dehTemp == IF hTempTime(hour) THEN V3_DEH_TEMP_H ELSE V3_DEH_TEMP
    IN s.currentHI > coldTemp /\ s.currentTemp < dehTemp

\* the dehumidifier window decided by the temperature alone
V3_InDehWindow_TempOnly(s, hour) ==
    LET dehTemp == IF hTempTime(hour) THEN V3_DEH_TEMP_H ELSE V3_DEH_TEMP
    IN s.currentTemp <= dehTemp

\* loop(): inside the dehumidifier window
V3_InDehWindow(s, hour) ==
    LET coldTemp == IF hTempTime(hour) THEN V3_COLD_HIDX_H ELSE V3_COLD_HIDX
        dehTemp == IF hTempTime(hour) THEN V3_DEH_TEMP_H ELSE V3_DEH_TEMP
    IN s.currentHI >= coldTemp /\ s.currentTemp <= dehTemp

\* the environmental control without the test of the boost flag
V3_Control_IgnoresBoost(s, hour, lastCommandSentInMinutes, useRemainModeTime) ==
    IF s.rht_control_on
       /\ V3_DwellElapsed(lastCommandSentInMinutes, useRemainModeTime)
    THEN IF V3_InDehWindow(s, hour)
         THEN IF s.currentMode # MODE_DEHUMIDIFIER
              THEN Mark(daikin_dehumidifier_on(s), "control")
              ELSE s
         ELSE IF s.currentMode # MODE_COOLING
              THEN Mark(daikin_ac_on(s), "control")
              ELSE s
    ELSE s

\* loop(): environmental control
V3_Control(s, hour, lastCommandSentInMinutes, useRemainModeTime) ==
    IF s.rht_control_on /\ ~s.daikin_boost
       /\ V3_DwellElapsed(lastCommandSentInMinutes, useRemainModeTime)
    THEN IF V3_InDehWindow(s, hour)
         THEN IF s.currentMode # MODE_DEHUMIDIFIER
              THEN Mark(daikin_dehumidifier_on(s), "control")
              ELSE s
         ELSE IF s.currentMode # MODE_COOLING
              THEN Mark(daikin_ac_on(s), "control")
              ELSE s
    ELSE s

\* loop() with the auto off timer checked before the auto on timer
V3_loop_OffFirst(s, hour, bytes) ==
    LET lastCommandSentInMinutes ==
            s.elapsed_remain_mode_timer \div MS_PER_MINUTE
        useRemainModeTime == V3_useRemainModeTime(s.currentMode)
        s1 == V3_TrackHHours(s, hour)
        s2 == V3_AutoOff(s1, hour)
        s3 == V3_AutoOn(s2, hour)
        s4 == ReadSerial(s3, bytes, FALSE)
    IN V3_Control(s4, hour, lastCommandSentInMinutes, useRemainModeTime)

\* loop(), with the bytes waiting on Serial1
V3_loop(s, hour, bytes) ==
    LET lastCommandSentInMinutes ==
            s.elapsed_remain_mode_timer \div MS_PER_MINUTE
        useRemainModeTime == V3_useRemainModeTime(s.currentMode)
        s1 == V3_TrackHHours(s, hour)
        s2 == V3_AutoOn(s1, hour)
        s3 == V3_AutoOff(s2, hour)
        s4 == ReadSerial(s3, bytes, FALSE)
    IN V3_Control(s4, hour, lastCommandSentInMinutes, useRemainModeTime)

\* myHandler(): daikin-auto
V3_DaikinAuto(s) ==
    LET s1 == [s EXCEPT
                 !.elapsed_remain_mode_timer =
                     V3_REMAIN_MODE_TIME * MS_PER_MINUTE,
                 !.currentMode = MODE_OFF]
    IN IF s1.rht_control_on
       THEN IF s1.daikin_boost
            THEN Println(Println([s1 EXCEPT !.daikin_boost = FALSE],
                                 "att25"), "atf6")
            ELSE daikin_ac_on(Println(Println(
                     [s1 EXCEPT !.daikin_boost = TRUE], "att23"), "atf5"))
       ELSE [Println(Println(s1, "att25"), "atf6") EXCEPT
                !.rht_control_on = TRUE]

\* myHandler(): daikin-off
V3_DaikinOff(s) ==
    [daikin_off([s EXCEPT !.rht_control_on = FALSE, !.daikin_boost = FALSE])
        EXCEPT !.autoOnTimerHour = TIMER_DISABLED]

\* myHandler(event, data)
V3_myHandler(s, ingredient) ==
    IF Has(ingredient, Txt_daikin_auto) THEN V3_DaikinAuto(s)
    ELSE IF Has(ingredient, Txt_daikin_off) THEN V3_DaikinOff(s)
    ELSE IF Has(ingredient, Txt_auto_off)
    THEN IF Len(ingredient) >= 10
         THEN [s EXCEPT !.autoOffTimerHour =
                            ScheduleHour(ingredient, Txt_auto_off)]
         ELSE s
    ELSE IF Has(ingredient, Txt_auto_on)
    THEN IF Len(ingredient) >= 9
         THEN [s EXCEPT !.autoOnTimerHour =
                            ScheduleHour(ingredient, Txt_auto_on)]
         ELSE s
    ELSE s

\* the sensor readings the V3 model feeds: on the window's boundary, the
\* temperature just above it, the heat index just below it, for the
\* thresholds outside and inside the H hours
V3_Readings ==
    { [rh |-> 6500, t |-> 2650, hi |-> 2420],
      [rh |-> 6500, t |-> 2651, hi |-> 2420],
      [rh |-> 6500, t |-> 2650, hi |-> 2419],
      [rh |-> 6500, t |-> 2750, hi |-> 2445],
      [rh |-> 6500, t |-> 2751, hi |-> 2445],
      [rh |-> 6500, t |-> 2750, hi |-> 2444] }

V3_SerialInputs ==
    { << >> } \cup { SensorLine(r.rh, r.t, r.hi, 12) : r \in V3_Readings }

\* auto-off-<x> and auto-on-<x> payloads whose <x> is no hour: text, and
\* a number above 24
V3_BadHourPayloads ==
    { Txt_auto_off \o << "x", "x" >>, WithNumber(Txt_auto_off, 25),
      Txt_auto_on \o << "x", "x" >>, WithNumber(Txt_auto_on, 25) }

V3_Payloads ==
    { Txt_daikin_auto, Txt_daikin_off,
      WithNumber(Txt_auto_off, 3), WithNumber(Txt_auto_on, 3) }
        \cup V3_BadHourPayloads

V3_Loop ==
    \E bytes \in V3_SerialInputs :
        \E s \in { V3_loop(Cur, clockHour, bytes) } : Commit(s, "loop")

V3_Handler ==
    \E ingredient \in V3_Payloads :
        \E s \in { V3_myHandler(Cur, ingredient) } : Commit(s, "myHandler")

V3_Init == Setup(AC_START_TEMP, ClockHHours)

V3_Elapse == Elapse(ClockHHours, StepMs, FALSE)

V3_Next == V3_Loop \/ V3_Handler \/ V3_Elapse

SpecV3 == V3_Init /\ [][V3_Next]_vars

(* V3 with auto-control enabled once and left alone: no other remote      *)
(* command, no schedule armed, and every reading below the cold threshold. *)

\* readings whose heat index is below COLD_HIDX and COLD_HIDX_H
V3_ColdReadings ==
    { [rh |-> 6500, t |-> 2650, hi |-> 2419],
      [rh |-> 5000, t |-> 2400, hi |-> 2300] }

\* a tick that finds a sensor line waiting on Serial1
V3_ColdRead ==
    \E bytes \in { SensorLine(r.rh, r.t, r.hi, 12) : r \in V3_ColdReadings } :
        \E s \in { V3_loop(Cur, clockHour, bytes) } : Commit(s, "loop")

\* a tick that finds nothing waiting on Serial1
V3_ColdTick ==
    \E s \in { V3_loop(Cur, clockHour, << >>) } : Commit(s, "loop")

\* daikin-auto, handled while auto-control is off
V3_Enable ==
    /\ ~rht_control_on
    /\ \E s \in { V3_myHandler(Cur, Txt_daikin_auto) } : Commit(s, "myHandler")

V3_ColdNext == V3_ColdTick \/ V3_ColdRead \/ V3_Enable \/ V3_Elapse

\* loop() is called again and again, far more often than the sensor
\* answers, and the timers run
SpecV3Cold ==
    V3_Init /\ [][V3_ColdNext]_vars
        /\ WF_vars(V3_ColdTick) /\ WF_vars(V3_Elapse)

----------------------------------------------------------------------------
(* V3: the response line parser on its own, fed in pieces.                 *)

\* the longest line the parser model collects
MaxLineLen == 16

\* pieces of sensor lines, arriving in any order: the four fields, and a
\* heat index field without its comma
ParsePieces ==
    { << ">", "R", "=", "6", "," >>,
      << "T", "=", "7", "," >>,
      << "H", "=", "3", "," >>,
      << "H", "=", "3" >>,
      << "C", "=", "4" >> }

\* what one tick finds on Serial1: a piece, an end of line, a line feed, a
\* whole line from the sensor, a good line followed by one without its
\* count, and a chunk that ends one line and begins the next
ParseChunks ==
    ParsePieces \cup
    { << CR >>, << LF >>, << CR, LF >>,
      SensorLine(6500, 2650, 2420, 12),
      << ">", "R", "=", "6", ",", "T", "=", "7", ",", "H", "=", "3", ",",
         "C", "=", "4", CR, LF,
         ">", "R", "=", "8", ",", "T", "=", "9", ",", "H", "=", "5", ",",
         CR, LF >>,
      << "x", LF, "y", CR, "z" >> }

\* a tick of loop() with chunk waiting on Serial1
V3_Feed ==
    \E bytes \in ParseChunks :
        /\ Len(recvLine) + Len(bytes) <= MaxLineLen
              \/ IndexOf(bytes, << CR >>) >= 0
        /\ \E s \in { V3_loop(Cur, clockHour, bytes) } : Commit(s, "loop")

SpecV3Parse == V3_Init /\ [][V3_Feed]_vars

----------------------------------------------------------------------------
(* The set-point functions of V5, V6 and V7.                               *)

\* the token of the switch(setTemp) in daikin_ac_on_set_temp and cool-on
AttToken(setTemp) ==
    CASE setTemp = 22 -> "att22"
      [] setTemp = 23 -> "att23"
      [] setTemp = 24 -> "att24"
      [] setTemp = 25 -> "att25"
      [] setTemp = 26 -> "att26"

daikin_ac_on_set_temp(s, setTemp) ==
    IF setTemp >= 22 /\ setTemp <= 26
    THEN daikin_ac_on(Println(Println(s, AttToken(setTemp)), "atf6"))
    ELSE s

ac_setting_down(s) ==
    IF s.currentACsetting > AC_SETTING_LOW
    THEN daikin_ac_on_set_temp(
             [s EXCEPT !.currentACsetting = @ - 1], s.currentACsetting - 1)
    ELSE s

\* ac_setting_up() without the test of AC_SETTING_HIGH
ac_setting_up_NoCeiling(s) ==
    daikin_ac_on_set_temp(
        [s EXCEPT !.currentACsetting = @ + 1], s.currentACsetting + 1)

ac_setting_up(s) ==
    IF s.currentACsetting < AC_SETTING_HIGH
    THEN daikin_ac_on_set_temp(
             [s EXCEPT !.currentACsetting = @ + 1], s.currentACsetting + 1)
    ELSE s

\* the number after cool-on-, for a payload of the length the handler asks
CoolTemp(ingredient) ==
    ToInt(SubstringFrom(ingredient,
                        IndexOf(ingredient, Txt_cool_on) + Len(Txt_cool_on)))

\* the sensor lines a run may still receive: the RHT module counts its
\* readings, and the model stops feeding at MaxReadCount
SensorInputs(readings, count) ==
    { << >> } \cup
    IF count < MaxReadCount
    THEN { SensorLine(r.rh, r.t, r.hi, count + 1) : r \in readings }
    ELSE {}

----------------------------------------------------------------------------
(* V5: Particle_O2_Daikin_5.                                               *)

V5_HI_HIGH == 2690
V5_HI_LOW == 2600
V5_HI_HIGH_H == 2750
V5_HI_LOW_H == 2650
V5_REMAIN_MODE_TIME == 10
MAX_REMAIN_MINUTES == 60

\* loop(): check auto on timer
V5_AutoOn(s, hour) ==
    IF hour = s.autoOnTimerHour
    THEN LET s1 == [s EXCEPT
                      !.elapsed_remain_mode_timer =
                          MAX_REMAIN_MINUTES * MS_PER_MINUTE,
                      !.currentMode = MODE_OFF,
                      !.daikin_boost = FALSE,
                      !.rht_control_on = TRUE,
                      !.currentACsetting = AC_START_TEMP]
             s2 == daikin_ac_on_set_temp(s1, s1.currentACsetting)
         IN Mark([s2 EXCEPT !.autoOnTimerHour = TIMER_DISABLED], "autoOn")
    ELSE s

\* the auto off timer of loop() without the clearing of the slot
V5_AutoOff_KeepsSlot(s, hour) ==
    IF hour = s.autoOffTimerHour
    THEN Mark(daikin_off([s EXCEPT !.rht_control_on = FALSE,
                                   !.daikin_boost = FALSE]), "autoOff")
    ELSE s

\* loop(): check auto off timer
V5_AutoOff(s, hour) ==
    IF hour = s.autoOffTimerHour
    THEN Mark([daikin_off([s EXCEPT !.rht_control_on = FALSE,
                                    !.daikin_boost = FALSE])
                 EXCEPT !.autoOffTimerHour = TIMER_DISABLED], "autoOff")
    ELSE s

\* the environmental control with the two ends of the band outside it
V5_Control_ClosedEnds(s, hour, lastCommandSentInMinutes) ==
    LET hiHigh == IF hTempTime(hour) THEN V5_HI_HIGH_H ELSE V5_HI_HIGH
        hiLow == IF hTempTime(hour) THEN V5_HI_LOW_H ELSE V5_HI_LOW
    IN IF s.rht_control_on /\ ~s.daikin_boost
          /\ s.currentHI > 0 /\ s.currentTemp > 0
          /\ lastCommandSentInMinutes >= V5_REMAIN_MODE_TIME
       THEN IF s.currentHI >= hiHigh
            THEN IF s.currentTemp >= s.last10minTemps[1]
                 THEN Mark(ac_setting_down(s), "control")
                 ELSE s
            ELSE IF s.currentHI <= hiLow
            THEN IF s.currentTemp <= s.last10minTemps[1]
                 THEN Mark(ac_setting_up(s), "control")
                 ELSE s
            ELSE s
       ELSE s

\* the environmental control without the test of the oldest sample
V5_Control_NoTrend(s, hour, lastCommandSentInMinutes) ==
    LET hiHigh == IF hTempTime(hour) THEN V5_HI_HIGH_H ELSE V5_HI_HIGH
        hiLow == IF hTempTime(hour) THEN V5_HI_LOW_H ELSE V5_HI_LOW
    IN IF s.rht_control_on /\ ~s.daikin_boost
          /\ s.currentHI > 0 /\ s.currentTemp > 0
          /\ lastCommandSentInMinutes >= V5_REMAIN_MODE_TIME
       THEN IF s.currentHI > hiHigh
            THEN Mark(ac_setting_down(s), "control")
            ELSE IF s.currentHI < hiLow
            THEN Mark(ac_setting_up(s), "control")
            ELSE s
       ELSE s

\* the environmental control without the test of rht_control_on
V5_Control_AlwaysOn(s, hour, lastCommandSentInMinutes) ==
    LET hiHigh == IF hTempTime(hour) THEN V5_HI_HIGH_H ELSE V5_HI_HIGH
        hiLow == IF hTempTime(hour) THEN V5_HI_LOW_H ELSE V5_HI_LOW
    IN IF ~s.daikin_boost
          /\ s.currentHI > 0 /\ s.currentTemp > 0
          /\ lastCommandSentInMinutes >= V5_REMAIN_MODE_TIME
       THEN IF s.currentHI > hiHigh
            THEN IF s.currentTemp >= s.last10minTemps[1]
                 THEN Mark(ac_setting_down(s), "control")
                 ELSE s
            ELSE IF s.currentHI < hiLow
            THEN IF s.currentTemp <= s.last10minTemps[1]
                 THEN Mark(ac_setting_up(s), "control")
                 ELSE s
            ELSE s
       ELSE s

\* loop(): environmental control
V5_Control(s, hour, lastCommandSentInMinutes) ==
    LET hiHigh == IF hTempTime(hour) THEN V5_HI_HIGH_H ELSE V5_HI_HIGH
        hiLow == IF hTempTime(hour) THEN V5_HI_LOW_H ELSE V5_HI_LOW
    IN IF s.rht_control_on /\ ~s.daikin_boost
          /\ s.currentHI > 0 /\ s.currentTemp > 0
          /\ lastCommandSentInMinutes >= V5_REMAIN_MODE_TIME
       THEN IF s.currentHI > hiHigh
            THEN IF s.currentTemp >= s.last10minTemps[1]
                 THEN Mark(ac_setting_down(s), "control")
                 ELSE s
            ELSE IF s.currentHI < hiLow
            THEN IF s.currentTemp <= s.last10minTemps[1]
                 THEN Mark(ac_setting_up(s), "control")
                 ELSE s
            ELSE s
       ELSE s

\* loop(), with the bytes waiting on Serial1
V5_loop(s, hour, bytes) ==
    LET lastCommandSentInMinutes ==
            s.elapsed_remain_mode_timer \div MS_PER_MINUTE
        s1 == [s EXCEPT !.current_H_hours = hTempTime(hour)]
        s2 == V5_AutoOn(s1, hour)
        s3 == V5_AutoOff(s2, hour)
        s4 == ReadSerial(s3, bytes, TRUE)
    IN V5_Control(s4, hour, lastCommandSentInMinutes)

\* myHandler(): daikin-auto
V5_DaikinAuto(s) ==
    LET s1 == [s EXCEPT
                 !.elapsed_remain_mode_timer =
                     MAX_REMAIN_MINUTES * MS_PER_MINUTE,
                 !.currentMode = MODE_OFF]
    IN IF s1.rht_control_on
       THEN IF s1.daikin_boost
            THEN daikin_ac_on_set_temp(
                     [s1 EXCEPT !.daikin_boost = FALSE,
                                !.currentACsetting = AC_START_TEMP],
                     AC_START_TEMP)
            ELSE daikin_ac_on(Println(Println(
                     [s1 EXCEPT !.daikin_boost = TRUE], "att23"), "atf5"))
       ELSE [daikin_ac_on_set_temp(
                 [s1 EXCEPT !.currentACsetting = AC_START_TEMP],
                 AC_START_TEMP)
               EXCEPT !.rht_control_on = TRUE]

\* myHandler(): cool-on-<degree>
V5_CoolOn(s, ingredient) ==
    IF Len(ingredient) = 10
       /\ CoolTemp(ingredient) >= 22 /\ CoolTemp(ingredient) <= 26
    THEN Mark(daikin_ac_on(Println(Println(
                  s, AttToken(CoolTemp(ingredient))), "atf6")), "coolOn")
    ELSE s

\* myHandler(): auto-on-<hour>
V5_SetAutoOn(s, ingredient) ==
    IF Len(ingredient) >= 9
    THEN LET hour == ScheduleHour(ingredient, Txt_auto_on)
         IN [s EXCEPT !.autoOnTimerHour = hour,
                      !.currentACsetting =
                          IF hour # TIMER_DISABLED THEN AC_START_TEMP ELSE @]
    ELSE s

\* myHandler(event, data)
V5_myHandler(s, ingredient) ==
    IF Has(ingredient, Txt_daikin_auto) THEN V5_DaikinAuto(s)
    ELSE IF Has(ingredient, Txt_daikin_off) THEN V3_DaikinOff(s)
    ELSE IF Has(ingredient, Txt_auto_off)
    THEN IF Len(ingredient) >= 10
         THEN [s EXCEPT !.autoOffTimerHour =
                            ScheduleHour(ingredient, Txt_auto_off)]
         ELSE s
    ELSE IF Has(ingredient, Txt_auto_on) THEN V5_SetAutoOn(s, ingredient)
    ELSE IF Has(ingredient, Txt_cool_on) THEN V5_CoolOn(s, ingredient)
    ELSE s

\* the sensor readings the V5 model feeds: a heat index above HI_HIGH, one
\* below HI_LOW, one equal to HI_LOW, one equal to HI_HIGH, and a hotter
\* one above HI_HIGH, after which the first is a falling temperature
V5_Readings ==
    { [rh |-> 6000, t |-> 2700, hi |-> 2760],
      [rh |-> 7000, t |-> 2500, hi |-> 2550],
      [rh |-> 6500, t |-> 2550, hi |-> 2600],
      [rh |-> 6400, t |-> 2560, hi |-> 2690],
      [rh |-> 5000, t |-> 2800, hi |-> 2800] }

V5_Payloads ==
    { Txt_daikin_auto, Txt_daikin_off, WithNumber(Txt_auto_off, 3),
      WithNumber(Txt_auto_on, 3), WithNumber(Txt_cool_on, 24) }

V5_Loop ==
    \E bytes \in SensorInputs(V5_Readings, currentReadCount) :
        \E s \in { V5_loop(Cur, clockHour, bytes) } : Commit(s, "loop")

V5_Handler ==
    \E ingredient \in V5_Payloads :
        \E s \in { V5_myHandler(Cur, ingredient) } : Commit(s, "myHandler")

V5_Elapse == Elapse(ClockHHours, StepMs, FALSE)

V5_Init == Setup(AC_START_TEMP, ClockHHours)

V5_Next == V5_Loop \/ V5_Handler \/ V5_Elapse

SpecV5 == V5_Init /\ [][V5_Next]_vars

----------------------------------------------------------------------------
(* The fan functions and the handler branches V6 and V7 share.             *)

\* the token of the switch(currentFANsetting) in ac_fan_setting
FanToken(fan) ==
    CASE fan = 1 -> "atf1"
      [] fan = 2 -> "atf2"
      [] fan = 3 -> "atf3"
      [] fan = 4 -> "atf4"
      [] fan = 5 -> "atf5"
      [] OTHER -> "atf6"

ac_fan_setting(s) == daikin_ac_on(Println(s, FanToken(s.currentFANsetting)))

\* fan_speed_up() without the floor at speed 1
fan_speed_up_NoFloor(s) ==
    Mark(ac_fan_setting([s EXCEPT !.currentFANsetting = @ - 1]), "moreFan")

\* increase FAN speed: a lower fan number
fan_speed_up(s) ==
    IF s.currentFANsetting <= 1
    THEN Mark(Mark(ac_fan_setting([s EXCEPT !.currentFANsetting = 1]),
                   "moreFan"), "fanFloor")
    ELSE Mark(ac_fan_setting([s EXCEPT !.currentFANsetting = @ - 1]),
              "moreFan")

\* decrease FAN speed: a higher fan number
fan_speed_down(s) ==
    IF s.currentFANsetting >= 6
    THEN Mark(Mark(ac_fan_setting([s EXCEPT !.currentFANsetting = 6]),
                   "lessFan"), "fanCeiling")
    ELSE Mark(ac_fan_setting([s EXCEPT !.currentFANsetting = @ + 1]),
              "lessFan")

\* auto-off-<hour> without the test of the payload's length
SetAutoOff_AnyLength(s, ingredient) ==
    Mark([s EXCEPT !.autoOffTimerHour =
                       ScheduleHour(ingredient, Txt_auto_off)],
         "shortAutoOff")

\* myHandler(): auto-off-<hour>
SetAutoOff(s, ingredient) ==
    IF Len(ingredient) >= 10
    THEN Mark([s EXCEPT !.autoOffTimerHour =
                            ScheduleHour(ingredient, Txt_auto_off)],
              "setAutoOff")
    ELSE Mark(s, "shortAutoOff")

\* myHandler(): auto-pause
ToggleAutoPause(s) == [s EXCEPT !.auto_pause = ~@]

\* cool-on-<degree> with auto-control disabled before the test of the range
CoolOn_DisablesFirst(s, ingredient) ==
    IF Len(ingredient) = 10
    THEN IF CoolTemp(ingredient) >= 22 /\ CoolTemp(ingredient) <= 26
         THEN Mark([daikin_ac_on(Println(Println(
                        s, AttToken(CoolTemp(ingredient))), "atf6"))
                      EXCEPT !.currentACsetting = CoolTemp(ingredient),
                             !.currentFANsetting = 6,
                             !.rht_control_on = FALSE], "coolOn")
         ELSE Mark([s EXCEPT !.rht_control_on = FALSE], "coolInvalid")
    ELSE s

\* myHandler(): cool-on-<degree>; outside 22..26 only the log line
\* "Invalid AC temperature command" is published
CoolOn(s, ingredient) ==
    IF Len(ingredient) = 10
    THEN IF CoolTemp(ingredient) >= 22 /\ CoolTemp(ingredient) <= 26
         THEN Mark([daikin_ac_on(Println(Println(
                        s, AttToken(CoolTemp(ingredient))), "atf6"))
                      EXCEPT !.currentACsetting = CoolTemp(ingredient),
                             !.currentFANsetting = 6,
                             !.rht_control_on = FALSE], "coolOn")
         ELSE Mark(s, "coolInvalid")
    ELSE s

\* myHandler(): drying-on
DryingOn(s, startTemp) ==
    [daikin_dehumidifier_on(s) EXCEPT !.currentACsetting = startTemp,
                                      !.currentFANsetting = 6,
                                      !.rht_control_on = FALSE]

\* myHandler(): the branches from more-fan on
FanAndNudge(s, ingredient, startTemp) ==
    IF Has(ingredient, Txt_more_fan) THEN fan_speed_up(s)
    ELSE IF Has(ingredient, Txt_less_fan) THEN fan_speed_down(s)
    ELSE IF Has(ingredient, Txt_max_fan)
    THEN ac_fan_setting([s EXCEPT !.currentFANsetting = 1])
    ELSE IF Has(ingredient, Txt_quiet_fan)
    THEN ac_fan_setting([s EXCEPT !.currentFANsetting = 6])
    ELSE IF Has(ingredient, Txt_too_hot) THEN ac_setting_down(s)
    ELSE IF Has(ingredient, Txt_too_cold) THEN ac_setting_up(s)
    ELSE IF Has(ingredient, Txt_drying_on) THEN DryingOn(s, startTemp)
    ELSE s

AUTO_PAUSE_HOUR == 3
AUTO_PAUSE_MINUTE == 30
AUTO_PAUSE_GUARD_HOUR == 3
AUTO_PAUSE_GUARD_MINUTE == 40

----------------------------------------------------------------------------
(* V6: the second sketch of src/unnamed/part_000 (V6.9.6).                 *)

V6_HI_HIGH == 2660
V6_HI_LOW == 2590
V6_HI_TOO_HIGH == 2850
V6_HI_TOO_LOW == 2300
V6_TEMP_TOO_HIGH == 2775
V6_TEMP_TOO_LOW == 2375
V6_REMAIN_MODE_TIME == 10
V6_REMAIN_MODE_TIME_EXT == 2

\* loop(): auto pause control
V6_AutoPause(s, hour, minute) ==
    IF s.auto_pause /\ s.currentMode # MODE_OFF
       /\ hour = AUTO_PAUSE_HOUR /\ minute = AUTO_PAUSE_MINUTE
    THEN Mark([daikin_off(s) EXCEPT !.rht_control_on = FALSE,
                                    !.auto_cooling = FALSE], "pause")
    ELSE IF s.auto_pause /\ s.currentMode = MODE_OFF
            /\ hour = AUTO_PAUSE_GUARD_HOUR /\ minute = AUTO_PAUSE_GUARD_MINUTE
    THEN Mark([s EXCEPT !.auto_pause = FALSE, !.auto_cooling = TRUE], "guard")
    ELSE s

\* loop(): switch to cooling when the temperature goes out of range
V6_AutoCooling(s) ==
    IF s.auto_cooling /\ s.currentTemp > 0
       /\ (s.currentTemp > V6_TEMP_TOO_HIGH \/ s.currentTemp < V6_TEMP_TOO_LOW)
    THEN Mark(daikin_ac_on_set_temp(
                  [s EXCEPT !.auto_cooling = FALSE,
                            !.rht_control_on = TRUE,
                            !.currentACsetting = AC_START_TEMP],
                  AC_START_TEMP), "autoCooling")
    ELSE s

\* unsigned int useRemainModeTime of loop()
V6_useRemainModeTime(s) ==
    IF s.currentHI > 0
       /\ (s.currentHI > V6_HI_TOO_HIGH \/ s.currentHI < V6_HI_TOO_LOW)
    THEN V6_REMAIN_MODE_TIME_EXT
    ELSE V6_REMAIN_MODE_TIME

\* loop(): check auto off timer
V6_AutoOff(s, hour) ==
    IF hour = s.autoOffTimerHour
    THEN Mark([daikin_off([s EXCEPT !.rht_control_on = FALSE,
                                    !.auto_cooling = FALSE,
                                    !.auto_pause = FALSE])
                 EXCEPT !.autoOffTimerHour = TIMER_DISABLED], "autoOff")
    ELSE s

\* loop(): environmental control
V6_Control(s, lastCommandSentInMinutes, useRemainModeTime) ==
    IF s.rht_control_on /\ s.currentHI > 0 /\ s.currentTemp > 0
       /\ lastCommandSentInMinutes >= useRemainModeTime
    THEN IF s.currentHI > V6_HI_HIGH
         THEN IF s.currentTemp >= s.last10minTemps[1]
              THEN Mark(ac_setting_down(s), "control")
              ELSE s
         ELSE IF s.currentHI < V6_HI_LOW
         THEN IF s.currentTemp <= s.last10minTemps[1]
              THEN Mark(ac_setting_up(s), "control")
              ELSE s
         ELSE s
    ELSE s

\* loop(), with the bytes waiting on Serial1
V6_loop(s, hour, minute, bytes) ==
    LET lastCommandSentInMinutes ==
            s.elapsed_remain_mode_timer \div MS_PER_MINUTE
        s1 == V6_AutoPause(s, hour, minute)
        s2 == V6_AutoCooling(s1)
        useRemainModeTime == V6_useRemainModeTime(s2)
        s3 == V6_AutoOff(s2, hour)
        s4 == ReadSerial(s3, bytes, TRUE)
    IN V6_Control(s4, lastCommandSentInMinutes, useRemainModeTime)

\* myHandler(): daikin-auto
V6_DaikinAuto(s) ==
    LET s1 == [s EXCEPT
                 !.elapsed_remain_mode_timer =
                     MAX_REMAIN_MINUTES * MS_PER_MINUTE,
                 !.currentMode = MODE_OFF]
    IN IF ~s1.rht_control_on
       THEN [daikin_ac_on_set_temp(
                 [s1 EXCEPT !.currentACsetting = AC_START_TEMP],
                 AC_START_TEMP)
               EXCEPT !.currentFANsetting = 6,
                      !.auto_cooling = FALSE,
                      !.auto_pause = FALSE,
                      !.rht_control_on = TRUE]
       ELSE s1

\* myHandler(): daikin-off
V6_DaikinOff(s) ==
    Mark([daikin_off([s EXCEPT !.rht_control_on = FALSE])
            EXCEPT !.auto_pause = FALSE], "daikinOff")

\* myHandler(): auto-dryer
V6_AutoDryer(s) ==
    daikin_dehumidifier_on(
        [s EXCEPT !.elapsed_remain_mode_timer =
                      MAX_REMAIN_MINUTES * MS_PER_MINUTE,
                  !.rht_control_on = FALSE,
                  !.currentACsetting = AC_START_TEMP,
                  !.currentFANsetting = 6,
                  !.auto_cooling = TRUE])

\* myHandler(event, data)
V6_myHandler(s, ingredient) ==
    IF Has(ingredient, Txt_daikin_auto) THEN V6_DaikinAuto(s)
    ELSE IF Has(ingredient, Txt_daikin_off) THEN V6_DaikinOff(s)
    ELSE IF Has(ingredient, Txt_auto_dryer) THEN V6_AutoDryer(s)
    ELSE IF Has(ingredient, Txt_auto_off) THEN SetAutoOff(s, ingredient)
    ELSE IF Has(ingredient, Txt_auto_pause) THEN ToggleAutoPause(s)
    ELSE IF Has(ingredient, Txt_cool_on) THEN CoolOn(s, ingredient)
    ELSE FanAndNudge(s, ingredient, AC_START_TEMP)

\* the sensor readings the V6 model feeds: hot (above TEMP_TOO_HIGH and
\* HI_HIGH) and mild (inside every band)
V6_Readings ==
    { [rh |-> 6000, t |-> 2800, hi |-> 2840],
      [rh |-> 6000, t |-> 2600, hi |-> 2620] }

V6_Payloads ==
    { Txt_daikin_auto, Txt_daikin_off, Txt_auto_dryer,
      WithNumber(Txt_auto_off, 4), Txt_auto_pause,
      WithNumber(Txt_cool_on, 24), Txt_too_cold }

V6_Loop ==
    \E bytes \in SensorInputs(V6_Readings, currentReadCount) :
        \E s \in { V6_loop(Cur, clockHour, clockMinute, bytes) } :
            Commit(s, "loop")

V6_Handler ==
    \E ingredient \in V6_Payloads :
        \E s \in { V6_myHandler(Cur, ingredient) } : Commit(s, "myHandler")

V6_Elapse == Elapse(ClockPause, StepMs, FALSE)

V6_Init == Setup(AC_START_TEMP, ClockPause)

V6_Next == V6_Loop \/ V6_Handler \/ V6_Elapse

SpecV6 == V6_Init /\ [][V6_Next]_vars

----------------------------------------------------------------------------
(* V7: Particle_O2_Daikin_7.                                               *)

V7_AC_START_TEMP == 24
V7_DH_HIGH == 2700
V7_DH_LOW == 2300
V7_DH_NEED_AC_HIGH == 2550
V7_DH_NEED_AC_TIME == 15
V7_TEMP_TOO_HIGH == 2760
V7_REMAIN_MODE_TIME == 10

\* loop(): auto pause control
V7_AutoPause(s, hour, minute) ==
    IF s.auto_pause /\ s.currentMode # MODE_OFF
       /\ hour = AUTO_PAUSE_HOUR /\ minute = AUTO_PAUSE_MINUTE
    THEN Mark([daikin_off(s) EXCEPT !.rht_control_on = FALSE,
                                    !.auto_reenable_rht = FALSE], "pause")
    ELSE IF s.auto_pause /\ s.currentMode = MODE_OFF
            /\ hour = AUTO_PAUSE_GUARD_HOUR /\ minute = AUTO_PAUSE_GUARD_MINUTE
    THEN Mark([s EXCEPT !.auto_pause = FALSE,
                        !.auto_reenable_rht = TRUE], "guard")
    ELSE s

\* loop(): re-enable the RHT control when the temperature is too high
V7_Reenable(s) ==
    IF s.auto_reenable_rht /\ s.currentTemp > 0
       /\ GtLiteral(s.currentTemp, V7_TEMP_TOO_HIGH)
    THEN Mark([s EXCEPT !.auto_reenable_rht = FALSE,
                        !.rht_control_on = TRUE], "reenable")
    ELSE s

\* loop(): check auto off timer
V7_AutoOff(s, hour) ==
    IF hour = s.autoOffTimerHour
    THEN Mark([daikin_off([s EXCEPT !.rht_control_on = FALSE,
                                    !.auto_reenable_rht = FALSE,
                                    !.auto_pause = FALSE])
                 EXCEPT !.autoOffTimerHour = TIMER_DISABLED], "autoOff")
    ELSE s

\* loop(): during DH mode, make sure the temperature is decreasing
V7_DHCheck(s) ==
    IF s.currentMode = MODE_DEHUMIDIFIER
       /\ s.timeElapsedDHCheck > V7_DH_NEED_AC_TIME * MS_PER_MINUTE
    THEN IF s.currentTemp > V7_DH_NEED_AC_HIGH
         THEN [daikin_ac_on_set_temp(s, s.currentACsetting)
                 EXCEPT !.DHNeedAC = TRUE]
         ELSE [s EXCEPT !.timeElapsedDHCheck = 0]
    ELSE s

\* loop(): environmental control
V7_Control(s, lastCommandSentInMinutes) ==
    IF s.rht_control_on /\ s.currentTemp > 0
       /\ lastCommandSentInMinutes >= V7_REMAIN_MODE_TIME
       /\ s.DHNeedAC /\ s.currentTemp <= V7_DH_NEED_AC_HIGH
    THEN LET s1 == IF (s.currentTemp > V7_DH_HIGH
                         \/ s.currentTemp < V7_DH_LOW)
                      /\ s.currentMode # MODE_COOLING
                   THEN daikin_ac_on_set_temp(s, s.currentACsetting)
                   ELSE IF s.currentMode # MODE_DEHUMIDIFIER
                   THEN [daikin_dehumidifier_on(s) EXCEPT
                            !.timeElapsedDHCheck = 0, !.DHNeedAC = FALSE]
                   ELSE s
         IN Mark(V7_DHCheck(s1), "control")
    ELSE s

\* loop(), with the bytes waiting on Serial1
V7_loop(s, hour, minute, bytes) ==
    LET lastCommandSentInMinutes ==
            s.elapsed_remain_mode_timer \div MS_PER_MINUTE
        s1 == V7_AutoPause(s, hour, minute)
        s2 == V7_Reenable(s1)
        s3 == V7_AutoOff(s2, hour)
        s4 == ReadSerial(s3, bytes, FALSE)
    IN V7_Control(s4, lastCommandSentInMinutes)

\* myHandler(): daikin-auto
V7_DaikinAuto(s) ==
    [s EXCEPT !.elapsed_remain_mode_timer =
                  MAX_REMAIN_MINUTES * MS_PER_MINUTE,
              !.currentMode = MODE_OFF,
              !.currentACsetting = V7_AC_START_TEMP,
              !.currentFANsetting = 6,
              !.auto_reenable_rht = FALSE,
              !.auto_pause = FALSE,
              !.rht_control_on = TRUE]

\* myHandler(): daikin-off
V7_DaikinOff(s) ==
    [daikin_off([s EXCEPT !.rht_control_on = FALSE])
        EXCEPT !.currentACsetting = V7_AC_START_TEMP,
               !.currentFANsetting = 6,
               !.auto_reenable_rht = FALSE,
               !.auto_pause = FALSE]

\* myHandler(event, data)
V7_myHandler(s, ingredient) ==
    IF Has(ingredient, Txt_daikin_auto) THEN V7_DaikinAuto(s)
    ELSE IF Has(ingredient, Txt_daikin_off) THEN V7_DaikinOff(s)
    ELSE IF Has(ingredient, Txt_auto_off) THEN SetAutoOff(s, ingredient)
    ELSE IF Has(ingredient, Txt_auto_pause) THEN ToggleAutoPause(s)
    ELSE IF Has(ingredient, Txt_cool_on) THEN CoolOn(s, ingredient)
    ELSE FanAndNudge(s, ingredient, V7_AC_START_TEMP)

\* the sensor readings the V7 model feeds: at TEMP_TOO_HIGH and just
\* below it
V7_Readings ==
    { [rh |-> 6000, t |-> 2760, hi |-> 2800],
      [rh |-> 6000, t |-> 2759, hi |-> 2800] }

V7_SerialInputs ==
    { << >> } \cup { SensorLine(r.rh, r.t, r.hi, 12) : r \in V7_Readings }

V7_Payloads ==
    { Txt_daikin_auto, Txt_daikin_off, WithNumber(Txt_auto_off, 4),
      Txt_auto_pause, WithNumber(Txt_cool_on, 22), WithNumber(Txt_cool_on, 26),
      WithNumber(Txt_cool_on, 21), WithNumber(Txt_cool_on, 27),
      Txt_more_fan, Txt_less_fan, Txt_max_fan, Txt_quiet_fan,
      Txt_too_hot, Txt_too_cold, Txt_drying_on }

V7_Loop ==
    \E bytes \in V7_SerialInputs :
        \E s \in { V7_loop(Cur, clockHour, clockMinute, bytes) } :
            Commit(s, "loop")

V7_Handler ==
    \E ingredient \in V7_Payloads :
        \E s \in { V7_myHandler(Cur, ingredient) } : Commit(s, "myHandler")

V7_Elapse == Elapse(ClockPause, MaxTimerMs, TRUE)

V7_Init == Setup(V7_AC_START_TEMP, ClockPause)

V7_Next == V7_Loop \/ V7_Handler \/ V7_Elapse

SpecV7 == V7_Init /\ [][V7_Next]_vars

----------------------------------------------------------------------------
(* The dispatchers statement by statement (V7).                            *)

IR_REPEAT_DELAY == 2000

Dispatchers ==
    { "daikin_fan_on", "daikin_ac_on", "daikin_dehumidifier_on", "daikin_off" }

\* the token of Serial1.println in the dispatcher fn
DispatchToken(fn) ==
    CASE fn = "daikin_fan_on" -> "ate1"
      [] fn = "daikin_ac_on" -> "atc1"
      [] fn = "daikin_dehumidifier_on" -> "atm1"
      [] fn = "daikin_off" -> "atd0"

\* the mode the dispatcher fn records
DispatchMode(fn) ==
    CASE fn = "daikin_fan_on" -> MODE_FAN
      [] fn = "daikin_ac_on" -> MODE_COOLING
      [] fn = "daikin_dehumidifier_on" -> MODE_DEHUMIDIFIER
      [] fn = "daikin_off" -> MODE_OFF

\* the for loop that goes round once more than IR_REPEAT times
RepeatTest_OneMore(repeat) == repeat <= IR_REPEAT

\* repeat < IR_REPEAT
RepeatTest(repeat) == repeat < IR_REPEAT

\* what a step of a dispatcher leaves alone
DispatchKeeps ==
    UNCHANGED << recvLine, currentTemp, currentRh, currentHI,
                 currentReadCount, daikin_boost, rht_control_on,
                 autoOffTimerHour, autoOnTimerHour, current_H_hours,
                 currentACsetting, currentFANsetting, last10minTemps,
                 auto_pause, auto_cooling, auto_reenable_rht, DHNeedAC,
                 clockHour, clockMinute, serialIn, fired, quiet,
                 quietBefore, rhtDisabled, elapsed_must_off_timer,
                 elapsed_keep_onoff_timer, elapsed_exterem_cond_timer,
                 current_temp_mode1, current_fan_mode_on, ac_already_off,
                 lastTickCommand >>

\* fn is called: repeat = 0 and the first test of the for loop
DispatchCall ==
    /\ dispatch.pc = "idle"
    /\ \E fn \in Dispatchers :
          /\ dispatch' = [fn |-> fn,
                          pc |-> IF RepeatTest(0) THEN "println" ELSE "set",
                          repeat |-> 0, delayed |-> 0]
          /\ lastOp' = fn
    /\ serialOut' = << >>
    /\ modeBefore' = currentMode
    /\ UNCHANGED << currentMode, elapsed_remain_mode_timer,
                    timeElapsedDHCheck >>
    /\ DispatchKeeps

\* Serial1.println(token)
DispatchPrintln ==
    /\ dispatch.pc = "println"
    /\ serialOut' = Append(serialOut, DispatchToken(dispatch.fn))
    /\ dispatch' = [dispatch EXCEPT !.pc = "delay"]
    /\ UNCHANGED << currentMode, elapsed_remain_mode_timer,
                    timeElapsedDHCheck, modeBefore, lastOp >>
    /\ DispatchKeeps

\* delay(IR_REPEAT_DELAY); repeat++; the test of the for loop
DispatchDelay ==
    /\ dispatch.pc = "delay"
    /\ elapsed_remain_mode_timer' =
           Later(elapsed_remain_mode_timer, IR_REPEAT_DELAY)
    /\ timeElapsedDHCheck' = Later(timeElapsedDHCheck, IR_REPEAT_DELAY)
    /\ dispatch' = [dispatch EXCEPT
                       !.delayed = @ + IR_REPEAT_DELAY,
                       !.repeat = @ + 1,
                       !.pc = IF RepeatTest(dispatch.repeat + 1)
                              THEN "println" ELSE "set"]
    /\ UNCHANGED << currentMode, serialOut, modeBefore, lastOp >>
    /\ DispatchKeeps

\* currentMode = ...; elapsed_remain_mode_timer = 0; return
DispatchSet ==
    /\ dispatch.pc = "set"
    /\ currentMode' = DispatchMode(dispatch.fn)
    /\ elapsed_remain_mode_timer' = 0
    /\ dispatch' = [dispatch EXCEPT !.pc = "idle"]
    /\ UNCHANGED << timeElapsedDHCheck, serialOut, modeBefore, lastOp >>
    /\ DispatchKeeps

\* time passes between two calls
DispatchIdle ==
    /\ dispatch.pc = "idle"
    /\ Elapse(ClockPause, MaxTimerMs, TRUE)

DispatchRun == DispatchPrintln \/ DispatchDelay \/ DispatchSet

DispatchInit == Setup(V7_AC_START_TEMP, ClockPause)

DispatchNext == DispatchCall \/ DispatchRun \/ DispatchIdle

\* a dispatcher that was called executes its next statement, and delay()
\* returns
SpecDispatch ==
    DispatchInit /\ [][DispatchNext]_vars /\ WF_vars(DispatchRun)

----------------------------------------------------------------------------
(* V3: the claims.                                                         *)

\* C1 as stated: with no remote command handled and no auto-on firing
\* since the last mode-changing command, loop() sends a mode-changing
\* command only when floor(timer / 60000) >= the minimum dwell of the
\* current mode.
C1_Original ==
    [][(lastOp' = "loop" /\ quiet /\ "autoOn" \notin fired'
          /\ SentModeCommand(serialOut'))
       => (elapsed_remain_mode_timer \div MS_PER_MINUTE)
              >= V3_useRemainModeTime(currentMode)]_vars

\* C1 amended: the same, for a loop() in which the auto-off timer does not
\* fire either: the command then comes from the environmental control,
\* which runs only when floor(timer / 60000) >= 5 minutes, 15 while the
\* mode is Dehumidify.
C1_DwellBeforeCommand ==
    [][(lastOp' = "loop" /\ quiet /\ "autoOn" \notin fired'
          /\ "autoOff" \notin fired' /\ SentModeCommand(serialOut'))
       => (elapsed_remain_mode_timer \div MS_PER_MINUTE)
              >= V3_useRemainModeTime(currentMode)]_vars

\* the control has switched from Dehumidify to Cooling, undisturbed
C1_Witness ==
    /\ lastOp = "loop" /\ quietBefore
    /\ "control" \in fired /\ "autoOn" \notin fired
    /\ modeBefore = MODE_DEHUMIDIFIER /\ currentMode = MODE_COOLING

\* C3 as stated: every operation that changes the recorded mode leaves the
\* remain_mode_timer at zero.
C3_Original ==
    [][currentMode' # currentMode => elapsed_remain_mode_timer' = 0]_vars

\* C3 amended: every operation that sends a mode-changing command (a
\* dispatcher function) leaves the remain_mode_timer at zero; an operation
\* that changes the recorded mode without one is daikin-auto or the
\* auto-on timer, it sets the mode to Off and leaves the timer at
\* REMAIN_MODE_TIME minutes.
C3_ModeChangeTimer ==
    [][/\ SentModeCommand(serialOut') => elapsed_remain_mode_timer' = 0
       /\ (currentMode' # currentMode /\ ~SentModeCommand(serialOut'))
          => /\ currentMode' = MODE_OFF
             /\ lastOp' = "myHandler" \/ "autoOn" \in fired'
             /\ elapsed_remain_mode_timer'
                    = V3_REMAIN_MODE_TIME * MS_PER_MINUTE]_vars

\* daikin-auto has set the mode from Cooling to Off without a dispatch
C3_Witness ==
    /\ lastOp = "myHandler" /\ ~SentModeCommand(serialOut)
    /\ modeBefore = MODE_COOLING /\ currentMode = MODE_OFF
    /\ elapsed_remain_mode_timer = V3_REMAIN_MODE_TIME * MS_PER_MINUTE

\* C9: when the auto-on and the auto-off timer are set to the same hour
\* and the clock is at it, one loop() leaves auto-control disabled, the
\* mode Off, one Off command sent and both timers at 25.
C9_OnThenOff ==
    [][(lastOp' = "loop" /\ clockHour = autoOnTimerHour
          /\ clockHour = autoOffTimerHour)
       => /\ ~rht_control_on'
          /\ currentMode' = MODE_OFF
          /\ Count(serialOut', "atd0") = IR_REPEAT
          /\ Count(serialOut', "atc1") = 0 /\ Count(serialOut', "atm1") = 0
          /\ autoOnTimerHour' = TIMER_DISABLED
          /\ autoOffTimerHour' = TIMER_DISABLED]_vars

\* both timers have fired in one loop()
C9_Witness ==
    lastOp = "loop" /\ "autoOn" \in fired /\ "autoOff" \in fired

\* C11: in V3, an auto-off-<x> or auto-on-<x> payload whose <x> is not a
\* number in 0..24 (text, or a number out of range) leaves the disabled
\* value 25 in its slot: the payloads of the run ask for hour 3 only, so a
\* handled command leaves a slot as it was, at 3, or at 25.
C11_BadHourDisables ==
    [][lastOp' = "myHandler" =>
          /\ autoOffTimerHour' \in {autoOffTimerHour, 3, TIMER_DISABLED}
          /\ autoOnTimerHour' \in {autoOnTimerHour, 3, TIMER_DISABLED}]_vars

\* C12: in V3, a tick that ends with the boost flag set (loop() never sets
\* it, so it was set all through the tick) took no decision of the
\* environmental control and sent neither Cooling nor Dehumidify.
C12_BoostStopsEngine ==
    [][(lastOp' = "loop" /\ daikin_boost')
          => /\ "control" \notin fired'
             /\ Count(serialOut', "atc1") = 0
             /\ Count(serialOut', "atm1") = 0]_vars

\* a tick under boost with the dwell time over, the mode Cooling and a
\* reading inside the dehumidifier window: the control would have switched
C12_Witness ==
    /\ lastOp = "loop" /\ daikin_boost /\ rht_control_on
    /\ currentMode = MODE_COOLING /\ modeBefore = MODE_COOLING
    /\ elapsed_remain_mode_timer \div MS_PER_MINUTE >= V3_REMAIN_MODE_TIME
    /\ ~hTempTime(clockHour)
    /\ currentTemp = V3_DEH_TEMP /\ currentHI = V3_COLD_HIDX

\* C13: in V3, a tick that ends with the reading still at temperature 0 and
\* humidity 0 took no decision of the environmental control.
C13_NoDecisionBeforeReading ==
    (lastOp = "loop" /\ currentTemp = 0 /\ currentRh = 0)
       => "control" \notin fired

\* C14: in V3, with auto-control enabled, boost off, no further remote
\* command, no schedule armed and every reading below the cold threshold in
\* force, the controller gets to Cooling and the recorded mode stays Cooling
\* for ever, as long as ticks keep coming and time advances.
C14_ConvergesToCooling ==
    (rht_control_on /\ ~daikin_boost) ~> [](currentMode = MODE_COOLING)

\* the control has just dispatched Cooling on a reading below the threshold
C14_Witness ==
    /\ lastOp = "loop" /\ "control" \in fired
    /\ Count(serialOut, "atc1") = IR_REPEAT
    /\ modeBefore = MODE_OFF /\ currentMode = MODE_COOLING
    /\ currentHI > 0 /\ currentHI < V3_COLD_HIDX

\* C15: in V3, a tick with auto-control on, boost off and the dwell time
\* over leaves the mode Dehumidify when the reading has temperature <= dehTemp
\* and heat index >= coldTemp (both boundaries included), else Cooling;
\* (dehTemp, coldTemp) is (27.50, 24.45) at hours 3..5 and (26.50, 24.20)
\* at the other hours.
C15_InclusiveBoundaries ==
    [][(/\ lastOp' = "loop" /\ rht_control_on' /\ ~daikin_boost'
        /\ elapsed_remain_mode_timer \div MS_PER_MINUTE
              >= V3_useRemainModeTime(currentMode))
          => LET inH == clockHour \in 3..5
                 dehTemp == IF inH THEN V3_DEH_TEMP_H ELSE V3_DEH_TEMP
                 coldTemp == IF inH THEN V3_COLD_HIDX_H ELSE V3_COLD_HIDX
             IN IF currentTemp' <= dehTemp /\ currentHI' >= coldTemp
                THEN currentMode' = MODE_DEHUMIDIFIER
                ELSE currentMode' = MODE_COOLING]_vars

\* the control chose Dehumidify for the reading on both boundaries of the
\* H hours
C15_Witness ==
    /\ lastOp = "loop" /\ "control" \in fired
    /\ currentMode = MODE_DEHUMIDIFIER /\ clockHour = HTEMP_BEGIN_HOUR
    /\ currentTemp = V3_DEH_TEMP_H /\ currentHI = V3_COLD_HIDX_H

----------------------------------------------------------------------------
(* V5: the claims.                                                         *)

\* C6: in V5, after an accepted cool-on-N (N in 22..26) has been handled,
\* auto-control is disabled: rht_control_on is false.
C6_CoolOnDisablesControl ==
    (lastOp = "myHandler" /\ "coolOn" \in fired) => ~rht_control_on

\* C8: in V5, a tick at the hour of the auto-off slot disables auto-control,
\* dispatches Off exactly once (IR_REPEAT transmissions of atd0), leaves the
\* mode Off and sets the slot to 25; any other tick dispatches no Off and
\* leaves the slot alone, and only the remote handler arms the slot: one
\* firing per assignment.
C8_AutoOffOnce ==
    [][/\ lastOp' = "loop" =>
            IF clockHour = autoOffTimerHour
            THEN /\ ~rht_control_on'
                 /\ Count(serialOut', "atd0") = IR_REPEAT
                 /\ currentMode' = MODE_OFF
                 /\ autoOffTimerHour' = TIMER_DISABLED
            ELSE /\ Count(serialOut', "atd0") = 0
                 /\ autoOffTimerHour' = autoOffTimerHour
       /\ (autoOffTimerHour' # autoOffTimerHour
             /\ autoOffTimerHour' # TIMER_DISABLED) => lastOp' = "myHandler"
      ]_vars

\* the auto-off timer fired in a tick that found the unit cooling
C8_Witness ==
    /\ lastOp = "loop" /\ "autoOff" \in fired
    /\ modeBefore = MODE_COOLING /\ currentMode = MODE_OFF
    /\ autoOffTimerHour = TIMER_DISABLED

\* C10: in V5, after the tick in which the auto-on timer fires and the
\* auto-off timer does not, auto-control is on, boost is off, the mode is
\* Off, the dwell timer is at its maximum and the auto-on slot is 25.
C10_AutoOnLeavesOffAndMaxTimer ==
    (lastOp = "loop" /\ "autoOn" \in fired /\ "autoOff" \notin fired)
       => /\ rht_control_on
          /\ ~daikin_boost
          /\ currentMode = MODE_OFF
          /\ elapsed_remain_mode_timer = MAX_REMAIN_MINUTES * MS_PER_MINUTE
          /\ autoOnTimerHour = TIMER_DISABLED

----------------------------------------------------------------------------
(* The parser: the claims.                                                 *)

\* the bytes of a chunk that are neither 0x0D nor 0x0A, in arrival order
RECURSIVE Stored(_)
Stored(bytes) ==
    IF bytes = << >> THEN << >>
    ELSE IF Head(bytes) \in {CR, LF} THEN Stored(Tail(bytes))
    ELSE << Head(bytes) >> \o Stored(Tail(bytes))

\* the lines that the carriage returns among bytes complete, the first of
\* them beginning with what the buffer held
LinesCompleted(buf, bytes) ==
    LET ends == { i \in 1..Len(bytes) : bytes[i] = CR }
        End(k) == CHOOSE i \in ends :
                      Cardinality({ j \in ends : j < i }) = k - 1
        Start(k) == IF k = 1 THEN 1 ELSE End(k - 1) + 1
    IN [ k \in 1..Cardinality(ends) |->
           (IF k = 1 THEN buf ELSE << >>)
               \o Stored(SubSeq(bytes, Start(k), End(k) - 1)) ]

\* key= occurs in line, with a comma somewhere after it
KeyThenComma(line, key) ==
    \E i \in 1..(Len(line) - 1) :
        /\ line[i] = key /\ line[i + 1] = "="
        /\ \E j \in (i + 2)..Len(line) : line[j] = ","

\* the line starts with >R= and has R=, T=, H= with their commas, and C=
WellFormed(line) ==
    /\ Len(line) >= 3
    /\ line[1] = ">" /\ line[2] = "R" /\ line[3] = "="
    /\ KeyThenComma(line, "R") /\ KeyThenComma(line, "T")
    /\ KeyThenComma(line, "H")
    /\ \E i \in 1..(Len(line) - 1) : line[i] = "C" /\ line[i + 1] = "="

\* C18: after a tick, the four stored values are those of the last
\* well-formed line the tick completed (starts with >R=; R=, T=, H= each
\* with a comma after it; C= present), all four from that same line; if the
\* tick completed no well-formed line (none at all, an empty one, a wrong
\* prefix, a missing key or comma), none of the four has changed.
C18_AllOrNothing ==
    [][lastOp' = "loop" =>
         \A lines \in { LinesCompleted(recvLine, serialIn') } :
           \A good \in { { i \in 1..Len(lines) : WellFormed(lines[i]) } } :
             IF good = {}
             THEN UNCHANGED << currentRh, currentTemp, currentHI,
                               currentReadCount >>
             ELSE \A last \in { i \in good : \A j \in good : j <= i } :
                    \A x \in { Extract(lines[last]) } :
                       /\ currentRh' = x.rh /\ currentTemp' = x.t
                       /\ currentHI' = x.hi
                       /\ currentReadCount' = x.c % 65536]_vars

\* one chunk brought a good line and then a line without its count: the
\* values of the good line are in force, none of the second line
C18_Witness ==
    /\ lastOp = "loop"
    /\ Len(LinesCompleted(<< >>, serialIn)) = 2
    /\ WellFormed(LinesCompleted(<< >>, serialIn)[1])
    /\ ~WellFormed(LinesCompleted(<< >>, serialIn)[2])
    /\ currentRh = 600 /\ currentTemp = 700 /\ currentHI = 300
    /\ currentReadCount = 4

\* C19: after a tick, the line buffer holds the bytes read since the last
\* 0x0D of the chunk (nothing if the 0x0D came last), or, if the chunk had
\* no 0x0D, what it held before followed by the bytes of the chunk; in
\* both cases in arrival order and without any 0x0A.
C19_BufferAfterChunk ==
    [][lastOp' = "loop" =>
         LET bytes == serialIn'
             ends == { i \in 1..Len(bytes) : bytes[i] = CR }
             lastCR == CHOOSE i \in ends : \A j \in ends : j <= i
         IN /\ IF ends = {}
               THEN recvLine' = recvLine \o Stored(bytes)
               ELSE recvLine' =
                        Stored(SubSeq(bytes, lastCR + 1, Len(bytes)))
            /\ \A i \in 1..Len(recvLine') : recvLine'[i] # LF]_vars

\* a chunk with a line feed, the end of a line and the start of the next
C19_Witness ==
    /\ lastOp = "loop"
    /\ serialIn = << "x", LF, "y", CR, "z" >>
    /\ recvLine = << "z" >>

----------------------------------------------------------------------------
(* The dispatchers: the claims.                                            *)

\* the tokens a dispatcher has sent so far are its own
OwnTokensOnly ==
    \A i \in 1..Len(serialOut) : serialOut[i] = DispatchToken(dispatch.fn)

\* while a dispatcher runs, it has sent its own token once per turn of the
\* loop and spent IR_REPEAT_DELAY in delay() after each but the one it has
\* just sent; when it has returned, it has sent its token IR_REPEAT times,
\* spent IR_REPEAT delays, and the mode is its mode and the timer is zero
DispatchProgress ==
    dispatch.fn \in Dispatchers =>
       /\ OwnTokensOnly
       /\ dispatch.delayed = dispatch.repeat * IR_REPEAT_DELAY
       /\ dispatch.pc = "println" =>
             Len(serialOut) = dispatch.repeat /\ dispatch.repeat < IR_REPEAT
       /\ dispatch.pc = "delay" => Len(serialOut) = dispatch.repeat + 1
       /\ dispatch.pc = "set" =>
             Len(serialOut) = IR_REPEAT /\ dispatch.repeat = IR_REPEAT
       /\ (dispatch.pc = "idle" /\ lastOp = dispatch.fn) =>
             /\ Len(serialOut) = IR_REPEAT
             /\ dispatch.delayed = IR_REPEAT * IR_REPEAT_DELAY
             /\ currentMode = DispatchMode(dispatch.fn)
             /\ elapsed_remain_mode_timer = 0

\* a step of a running dispatcher that changes the mode or takes the timer
\* back comes after the last transmission and the last delay
DispatchSetsLast ==
    (dispatch.pc # "idle"
       /\ \/ currentMode' # currentMode
          \/ elapsed_remain_mode_timer' < elapsed_remain_mode_timer)
    => /\ Len(serialOut) = IR_REPEAT
       /\ dispatch.delayed = IR_REPEAT * IR_REPEAT_DELAY
       /\ serialOut' = serialOut

\* C20: each of the four dispatchers sends its own token exactly IR_REPEAT
\* (3) times, each transmission followed by a delay of 2000 ms, no other
\* token in between; it sets the mode and resets the dwell timer only after
\* the third transmission and its delay; and once called it returns.
C20_RepeatThenSet ==
    /\ []DispatchProgress
    /\ [][DispatchSetsLast]_vars
    /\ (dispatch.pc # "idle") ~> (dispatch.pc = "idle")

\* daikin_off has returned after it was called with the unit cooling
C20_Witness ==
    /\ dispatch.pc = "idle" /\ lastOp = "daikin_off"
    /\ modeBefore = MODE_COOLING /\ currentMode = MODE_OFF
    /\ serialOut = << "atd0", "atd0", "atd0" >>
    /\ dispatch.delayed = 3 * 2000
    /\ elapsed_remain_mode_timer = 0

----------------------------------------------------------------------------
(* V5: the claims, continued.                                              *)

\* C16 as stated: in V5 at normal hours, with auto-control on, boost off
\* and the dwell of 10 minutes elapsed, the tick that receives the reading
\* T=25.5, R=65, HI=26.0 issues a mode command.
C16_Original ==
    [][(/\ lastOp' = "loop" /\ rht_control_on' /\ ~daikin_boost'
        /\ ~hTempTime(clockHour)
        /\ "autoOn" \notin fired' /\ "autoOff" \notin fired'
        /\ elapsed_remain_mode_timer \div MS_PER_MINUTE
              >= V5_REMAIN_MODE_TIME
        /\ currentReadCount' # currentReadCount
        /\ currentTemp' = 2550 /\ currentRh' = 6500 /\ currentHI' = 2600)
       => SentModeCommand(serialOut')]_vars

\* C16, amended: in V5 at normal hours (HI_LOW 26.00, HI_HIGH 26.90), a tick
\* in which no schedule fires and whose reading in force is T=25.5, R=65,
\* HI=26.0 or T=25.6, R=64, HI=26.9 issues no command at all, takes no
\* set-point decision and leaves the mode, the set-point and the dwell
\* timer as they were: both heat indices lie inside the band, whose ends
\* belong to it.
C16_BandEndsIssueNothing ==
    [][(/\ lastOp' = "loop" /\ ~hTempTime(clockHour)
        /\ "autoOn" \notin fired' /\ "autoOff" \notin fired'
        /\ \/ currentTemp' = 2550 /\ currentRh' = 6500 /\ currentHI' = 2600
           \/ currentTemp' = 2560 /\ currentRh' = 6400 /\ currentHI' = 2690)
       => /\ serialOut' = << >>
          /\ "control" \notin fired'
          /\ currentMode' = currentMode
          /\ currentACsetting' = currentACsetting
          /\ elapsed_remain_mode_timer' = elapsed_remain_mode_timer]_vars

\* the second reading of the stream has just been read, after the first,
\* with auto-control on and the dwell elapsed
C16_Witness ==
    /\ lastOp = "loop" /\ rht_control_on /\ ~daikin_boost
    /\ ~hTempTime(clockHour)
    /\ elapsed_remain_mode_timer \div MS_PER_MINUTE >= V5_REMAIN_MODE_TIME
    /\ currentReadCount = 2
    /\ currentTemp = 2560 /\ currentRh = 6400 /\ currentHI = 2690
    /\ last10minTemps[1] = 2550 /\ last10minTemps[10] = 2560
    /\ serialOut = << >>

\* C17: in V5, once a set-point decision has been taken on the only reading
\* ever received (the set-point is below its start value), a tick that
\* receives no new reading and in which no schedule fires sends no command
\* and leaves the mode and the set-point as they were, however much time
\* has passed.
C17_StaleReadingStalls ==
    [][(/\ lastOp' = "loop"
        /\ currentReadCount = 1 /\ currentReadCount' = 1
        /\ currentACsetting < AC_START_TEMP
        /\ "autoOn" \notin fired' /\ "autoOff" \notin fired')
       => /\ serialOut' = << >>
          /\ currentMode' = currentMode
          /\ currentACsetting' = currentACsetting]_vars

----------------------------------------------------------------------------
(* V6: the claims.                                                         *)

\* C2: in V6, the tick in which the armed auto-cooling fires and dispatches
\* Cooling (dwell timer back to zero) dispatches no further command from the
\* environmental control: a single Cooling command leaves in that tick.
C2_NoSecondCommand ==
    (lastOp = "loop" /\ "autoCooling" \in fired)
       => /\ "control" \notin fired
          /\ Count(serialOut, "atc1") = IR_REPEAT

\* C7: in V6, the tick that follows an accepted cool-on-N neither enables
\* auto-control nor sends anything to the air conditioner.
C7_TickKeepsManual ==
    [][("coolOn" \in fired /\ lastOp' = "loop")
          => (~rht_control_on' /\ serialOut' = << >>)]_vars

----------------------------------------------------------------------------
(* V7: the claims.                                                         *)

\* C4: in V7, currentACsetting is always within
\* [AC_SETTING_LOW, AC_SETTING_HIGH].
C4_SetPointInBounds ==
    currentACsetting >= AC_SETTING_LOW /\ currentACsetting <= AC_SETTING_HIGH

\* C5: in V7, currentFANsetting is always in 1..6; more-fan at speed 1 and
\* less-fan at speed 6 leave it unchanged.
C5_FanSaturates ==
    [][/\ currentFANsetting' >= 1 /\ currentFANsetting' <= 6
       /\ (lastOp' = "myHandler" /\ "moreFan" \in fired'
             /\ currentFANsetting = 1) => currentFANsetting' = 1
       /\ (lastOp' = "myHandler" /\ "lessFan" \in fired'
             /\ currentFANsetting = 6) => currentFANsetting' = 6]_vars

\* more-fan was handled with the fan already at speed 1
C5_Witness ==
    lastOp = "myHandler" /\ "fanFloor" \in fired /\ currentFANsetting = 1

----------------------------------------------------------------------------
(* V7: the claims, continued.                                              *)

\* the remote commands of V7 that name what they set
V7_AbsolutePayloads ==
    { Txt_daikin_auto, Txt_daikin_off, WithNumber(Txt_auto_off, 4),
      WithNumber(Txt_cool_on, 22), WithNumber(Txt_cool_on, 26),
      Txt_max_fan, Txt_quiet_fan, Txt_drying_on }

\* the remote commands of V7 that move the fan speed or the set-point by one
V7_RelativePayloads ==
    { Txt_more_fan, Txt_less_fan, Txt_too_hot, Txt_too_cold }

\* mode, control flags, set-point, fan speed and schedule slot
ControllerState(s) ==
    << s.currentMode, s.rht_control_on, s.auto_pause, s.auto_reenable_rht,
       s.currentACsetting, s.currentFANsetting, s.autoOffTimerHour >>

\* myHandler called with ingredient, and called with it once more
V7_HandledTwice(s, ingredient) ==
    V7_myHandler([V7_myHandler(s, ingredient) EXCEPT
                     !.serialIn = << >>, !.serialOut = << >>, !.fired = {}],
                 ingredient)

\* handling ingredient twice from s leaves the controller state of once
SameAsOnce(s, ingredient) ==
    \A once \in { V7_myHandler(s, ingredient) } :
      \A twice \in { V7_myHandler([once EXCEPT !.serialIn = << >>,
                                               !.serialOut = << >>,
                                               !.fired = {}], ingredient) } :
        ControllerState(twice) = ControllerState(once)

\* the command can move its value no further after the state s
V7_AtEnd(s, ingredient) ==
    CASE ingredient = Txt_more_fan -> s.currentFANsetting <= 1
      [] ingredient = Txt_less_fan -> s.currentFANsetting >= 6
      [] ingredient = Txt_too_hot -> ~(s.currentACsetting > AC_SETTING_LOW)
      [] ingredient = Txt_too_cold -> ~(s.currentACsetting < AC_SETTING_HIGH)

\* C21 as stated: in every reachable state of V7, handling any command but
\* auto-pause twice leaves the same controller state as handling it once.
C21_Original ==
    \A s \in { Cur } :
      \A ingredient \in V7_AbsolutePayloads \cup V7_RelativePayloads :
        SameAsOnce(s, ingredient)

\* C21, amended: in every reachable state of V7, handling daikin-auto,
\* daikin-off, auto-off-<h>, cool-on-<n>, drying-on, max-fan or quiet-fan
\* twice leaves the same controller state as handling it once; more-fan,
\* less-fan, too-hot and too-cold move the fan speed or the set-point by one
\* each time they are handled, and handling one of them twice leaves the
\* same state as once exactly when the first handling has reached the end
\* of the range (fan 1 or 6, set-point AC_SETTING_LOW or AC_SETTING_HIGH).
C21_IdempotentUnlessRelative ==
    \A s \in { Cur } :
      /\ \A ingredient \in V7_AbsolutePayloads : SameAsOnce(s, ingredient)
      /\ \A ingredient \in V7_RelativePayloads :
            SameAsOnce(s, ingredient)
               <=> \A once \in { V7_myHandler(s, ingredient) } :
                      V7_AtEnd(once, ingredient)

\* cool-on-22 has just been handled, handling it again would change
\* nothing, and more-fan would move the fan speed from 6 to 5 and then to 4
C21_Witness ==
    /\ lastOp = "myHandler" /\ "coolOn" \in fired
    /\ currentACsetting = 22 /\ currentFANsetting = 6
    /\ ControllerState(V7_myHandler(Cur, WithNumber(Txt_cool_on, 22)))
          = ControllerState(Cur)
    /\ V7_myHandler(Cur, Txt_more_fan).currentFANsetting = 5
    /\ V7_HandledTwice(Cur, Txt_more_fan).currentFANsetting = 4

C30_ArmedExcludesControl == ~(auto_reenable_rht /\ rht_control_on)

\* C30 (V6): auto cooling and auto-control are never both on.
C30_V6_ArmedExcludesControl == ~(auto_cooling /\ rht_control_on)

\* C23: in V7, a tick at the pause time 03:30 with auto-pause armed leaves
\* the mode Off and auto-control disabled.
C23_PauseDisablesControl ==
    [][(lastOp' = "loop" /\ auto_pause
        /\ clockHour = AUTO_PAUSE_HOUR /\ clockMinute = AUTO_PAUSE_MINUTE)
       => (currentMode' = MODE_OFF /\ ~rht_control_on')]_vars

\* C24: in V7, a tick turns auto-control back on only if the reenable flag
\* is armed (before the tick, or by the guard branch of the same tick) and
\* the stored temperature is strictly greater than TEMP_TOO_HIGH (27.60);
\* the flag is then cleared.  A temperature of exactly 27.60 does not
\* re-enable.
C24_ReenableOnlyAboveLimit ==
    [][(lastOp' = "loop" /\ ~rht_control_on /\ rht_control_on')
       => /\ auto_reenable_rht \/ "guard" \in fired'
          /\ currentTemp > V7_TEMP_TOO_HIGH
          /\ ~auto_reenable_rht']_vars

\* C29: in V6, the tick that follows a handled daikin-off leaves
\* auto-control disabled and dispatches neither Cooling nor Dehumidify.
C29_OffStaysOff ==
    [][(lastOp = "myHandler" /\ "daikinOff" \in fired /\ lastOp' = "loop")
       => /\ ~rht_control_on'
          /\ Count(serialOut', "atc1") = 0
          /\ Count(serialOut', "atm1") = 0]_vars

\* C27: in V7, a tick that runs with auto-control on, a stored nonzero
\* temperature, the dwell time elapsed and no scheduled switch-off leaves
\* the mode Dehumidify when DH_LOW <= temperature <= DH_HIGH and Cooling
\* otherwise.
C27_ModeFollowsReading ==
    [][(/\ lastOp' = "loop"
        /\ rht_control_on /\ rht_control_on'
        /\ currentTemp > 0 /\ currentTemp' = currentTemp
        /\ elapsed_remain_mode_timer \div MS_PER_MINUTE >= V7_REMAIN_MODE_TIME
        /\ "pause" \notin fired' /\ "autoOff" \notin fired')
       => currentMode' = IF currentTemp >= V7_DH_LOW /\ currentTemp <= V7_DH_HIGH
                         THEN MODE_DEHUMIDIFIER
                         ELSE MODE_COOLING]_vars

----------------------------------------------------------------------------
(* V5: the hysteresis engine and the recent-temperature buffer.            *)

\* the heat-index limits in force at the hour of the clock
V5_hiHigh == IF hTempTime(clockHour) THEN V5_HI_HIGH_H ELSE V5_HI_HIGH

V5_hiLow == IF hTempTime(clockHour) THEN V5_HI_LOW_H ELSE V5_HI_LOW

----------------------------------------------------------------------------
(* V1: the first sketch (2016-06-26), with the must-off timer.             *)

V1_TEMP_STD_MODE1 == 2500
V1_TEMP_STD_MODE2 == 2600
V1_TEMP_HIGH == 2700
V1_RH_STD == 6050
V1_TEMP_TOO_LOW_MODE1 == 2395
V1_TEMP_TOO_LOW_MODE2 == 2495
V1_HEAT_INDEX_TOO_HIGH == 2750
OFFOK_BEGIN_HOUR == 4
OFFOK_BEGIN_MIN == 0
OFFOK_END_HOUR == 5
OFFOK_END_MIN == 30

\* the minutes that pass in one step of the V1 environment
V1_StepMinutes == 240

Txt_rht_disable == << "r", "h", "t", "-", "d", "i", "s", "a", "b", "l", "e" >>

\* fan_on(), fan_off(): the fan is switched through a published event
fan_on(s) == [s EXCEPT !.current_fan_mode_on = TRUE]

fan_off(s) == [s EXCEPT !.current_fan_mode_on = FALSE]

V1_daikin_ac_on(s) ==
    fan_off([SendRepeated(s, "atc1", IR_REPEAT) EXCEPT
                !.currentMode = MODE_COOLING, !.elapsed_keep_onoff_timer = 0])

V1_daikin_dehumidifier_on(s) ==
    fan_off([SendRepeated(s, "atm1", IR_REPEAT) EXCEPT
                !.currentMode = MODE_DEHUMIDIFIER,
                !.elapsed_keep_onoff_timer = 0])

V1_daikin_off(s, turnFanOn) ==
    LET off == [SendRepeated(s, "atd0", IR_REPEAT) EXCEPT
                   !.currentMode = MODE_OFF, !.elapsed_keep_onoff_timer = 0]
    IN IF turnFanOn THEN fan_on(off) ELSE fan_off(off)

\* loop(): the OFFOK window of the day
V1_offOK(hour, minute) ==
    /\ hour * 60 + minute >= OFFOK_BEGIN_HOUR * 60 + OFFOK_BEGIN_MIN
    /\ hour * 60 + minute <= OFFOK_END_HOUR * 60 + OFFOK_END_MIN

\* loop(): the temperature mode follows the OFFOK window
V1_TempMode(s, offOK) ==
    IF offOK
    THEN IF s.current_temp_mode1
         THEN Println([s EXCEPT !.current_temp_mode1 = FALSE], "att25")
         ELSE s
    ELSE IF ~s.current_temp_mode1
         THEN Println([s EXCEPT !.current_temp_mode1 = TRUE], "att24")
         ELSE s

\* the bypass without the once-a-minute test of the extreme-condition timer
V1_Extreme_EveryTick(s, too_low_temp) ==
    IF \/ /\ s.currentMode = MODE_OFF
          /\ s.currentHI >= V1_HEAT_INDEX_TOO_HIGH
       \/ /\ s.currentMode = MODE_DEHUMIDIFIER
          /\ s.currentTemp <= too_low_temp
    THEN Mark([s EXCEPT !.elapsed_keep_onoff_timer =
                            KEEP_ONOFF_TIMER * MS_PER_MINUTE,
                        !.elapsed_exterem_cond_timer = 0], "bypass")
    ELSE s

\* loop(): an extreme condition lets the next tick bypass the on-off timer
V1_Extreme(s, too_low_temp) ==
    IF /\ \/ /\ s.currentMode = MODE_OFF
             /\ s.currentHI >= V1_HEAT_INDEX_TOO_HIGH
             /\ s.currentMode # MODE_COOLING
          \/ /\ s.currentMode # MODE_OFF
             /\ s.currentTemp <= too_low_temp
             /\ s.currentMode = MODE_DEHUMIDIFIER
       /\ s.elapsed_exterem_cond_timer >= MS_PER_MINUTE
    THEN Mark([s EXCEPT !.elapsed_keep_onoff_timer =
                            KEEP_ONOFF_TIMER * MS_PER_MINUTE,
                        !.elapsed_exterem_cond_timer = 0], "bypass")
    ELSE s

\* loop(): off once during the OFFOK window, else back to cooling
V1_OffOnceOrCool(s, offOK) ==
    IF offOK
    THEN IF ~s.ac_already_off
         THEN [V1_daikin_off(s, TRUE) EXCEPT !.ac_already_off = TRUE]
         ELSE s
    ELSE V1_daikin_ac_on(s)

\* loop(): the mode switch of the environmental control
V1_Switch(s, standard_temp, too_low_temp, offOK) ==
    IF s.currentMode = MODE_OFF
    THEN IF s.currentTemp > standard_temp
         THEN V1_daikin_ac_on(s)
         ELSE IF s.currentRh > V1_RH_STD
         THEN V1_daikin_dehumidifier_on(s)
         ELSE s
    ELSE IF s.currentMode = MODE_COOLING
    THEN IF s.currentTemp <= standard_temp
         THEN IF s.currentRh > V1_RH_STD
              THEN V1_daikin_dehumidifier_on(s)
              ELSE IF s.currentTemp <= too_low_temp
              THEN V1_OffOnceOrCool(s, offOK)
              ELSE s
         ELSE s
    ELSE IF s.currentTemp <= too_low_temp
         THEN V1_OffOnceOrCool(s, offOK)
         ELSE IF s.currentTemp > V1_TEMP_HIGH
         THEN V1_daikin_ac_on(s)
         ELSE s

\* loop(): stop the system if the MUST_OFF_TIMER is reached
V1_MustOff(s, ignoranceTimerInMinutes, lastCommandSentInMinutes) ==
    IF ignoranceTimerInMinutes >= MUST_OFF_TIMER
    THEN IF s.currentMode # MODE_OFF
         THEN Mark(V1_daikin_off(s, FALSE), "mustOff")
         ELSE IF lastCommandSentInMinutes >= KEEP_ONOFF_TIMER
         THEN Mark(V1_daikin_off(s, FALSE), "mustOff")
         ELSE s
    ELSE s

\* the environmental control without the test of the must-off timer
V1_Control_PastMustOff(s, ignoranceTimerInMinutes, lastCommandSentInMinutes, standard_temp, too_low_temp, offOK) ==
    IF ~s.rhtDisabled
    THEN LET x == V1_Extreme(s, too_low_temp)
             s1 == IF lastCommandSentInMinutes >= KEEP_ONOFF_TIMER
                   THEN Mark(V1_Switch(x, standard_temp, too_low_temp,
                                       offOK), "control")
                   ELSE x
         IN V1_MustOff(s1, ignoranceTimerInMinutes,
                       lastCommandSentInMinutes)
    ELSE s

\* loop(): environmental control
V1_Control(s, ignoranceTimerInMinutes, lastCommandSentInMinutes, standard_temp, too_low_temp, offOK) ==
    IF ~s.rhtDisabled
    THEN LET s1 == IF ignoranceTimerInMinutes < MUST_OFF_TIMER
                   THEN LET x == V1_Extreme(s, too_low_temp)
                        IN IF lastCommandSentInMinutes >= KEEP_ONOFF_TIMER
                           THEN Mark(V1_Switch(x, standard_temp,
                                               too_low_temp, offOK),
                                     "control")
                           ELSE x
                   ELSE s
         IN V1_MustOff(s1, ignoranceTimerInMinutes,
                       lastCommandSentInMinutes)
    ELSE s

\* loop(), with the bytes waiting on Serial1
V1_loop(s, hour, minute, bytes) ==
    LET lastCommandSentInMinutes ==
            s.elapsed_keep_onoff_timer \div MS_PER_MINUTE
        ignoranceTimerInMinutes ==
            s.elapsed_must_off_timer \div MS_PER_MINUTE
        offOK == V1_offOK(hour, minute)
        standard_temp ==
            IF offOK THEN V1_TEMP_STD_MODE2 ELSE V1_TEMP_STD_MODE1
        too_low_temp ==
            IF offOK THEN V1_TEMP_TOO_LOW_MODE2 ELSE V1_TEMP_TOO_LOW_MODE1
        s1 == V1_TempMode(s, offOK)
        s2 == ReadSerial(s1, bytes, FALSE)
    IN V1_Control(s2, ignoranceTimerInMinutes, lastCommandSentInMinutes,
                  standard_temp, too_low_temp, offOK)

\* myHandler(event, data)
V1_myHandler(s, ingredient) ==
    IF Has(ingredient, Txt_daikin_auto)
    THEN Mark([s EXCEPT !.elapsed_must_off_timer = 0,
                        !.elapsed_keep_onoff_timer =
                            KEEP_ONOFF_TIMER * MS_PER_MINUTE,
                        !.rhtDisabled = FALSE,
                        !.ac_already_off = FALSE,
                        !.currentMode = MODE_OFF], "daikinAuto")
    ELSE IF Has(ingredient, Txt_daikin_off)
    THEN [V1_daikin_off(s, FALSE) EXCEPT
             !.elapsed_must_off_timer = MUST_OFF_TIMER * MS_PER_MINUTE,
             !.rhtDisabled = FALSE]
    ELSE IF Has(ingredient, Txt_rht_disable)
    THEN Mark([s EXCEPT !.rhtDisabled = TRUE], "rhtDisable")
    ELSE s

\* the sensor readings the V1 model feeds: hot, humid and mild, cold
V1_Readings ==
    { [rh |-> 5500, t |-> 2800, hi |-> 2900],
      [rh |-> 6500, t |-> 2450, hi |-> 2480],
      [rh |-> 5000, t |-> 2390, hi |-> 2380] }

V1_Payloads == { Txt_daikin_auto, Txt_daikin_off, Txt_rht_disable }

V1_Loop ==
    \E bytes \in SensorInputs(V1_Readings, currentReadCount) :
        \E s \in { V1_loop(Cur, clockHour, clockMinute, bytes) } :
            Commit(s, "loop")

V1_Handler ==
    \E ingredient \in V1_Payloads :
        \E s \in { V1_myHandler(Cur, ingredient) } : Commit(s, "myHandler")

\* the shorter step of the V1 environment: a minute less than the time
\* the on-off timer keeps a mode
V1_ShortStepMinutes == KEEP_ONOFF_TIMER - 1

\* V1_StepMinutes or V1_ShortStepMinutes pass; each elapsedMillis counter
\* is followed up to the value it is compared with; the wall clock stays
\* or moves to its next point
V1_Elapse ==
    /\ \E step \in { V1_StepMinutes * MS_PER_MINUTE,
                     V1_ShortStepMinutes * MS_PER_MINUTE } :
          /\ elapsed_must_off_timer' =
                 Min(elapsed_must_off_timer + step,
                     MUST_OFF_TIMER * MS_PER_MINUTE)
          /\ elapsed_keep_onoff_timer' =
                 Min(elapsed_keep_onoff_timer + step,
                     KEEP_ONOFF_TIMER * MS_PER_MINUTE)
          /\ elapsed_exterem_cond_timer' =
                 Min(elapsed_exterem_cond_timer + step, MS_PER_MINUTE)
          /\ lastTickCommand' =
                 [lastTickCommand EXCEPT
                     !.ago = Min(@ + step, KEEP_ONOFF_TIMER * MS_PER_MINUTE)]
    /\ \/ UNCHANGED << clockHour, clockMinute >>
       \/ /\ clockHour' = NextClock(ClockPause).h
          /\ clockMinute' = NextClock(ClockPause).m
    /\ serialIn' = << >>
    /\ serialOut' = << >>
    /\ fired' = {}
    /\ modeBefore' = currentMode
    /\ quietBefore' = quiet
    /\ lastOp' = "elapse"
    /\ UNCHANGED << currentMode, elapsed_remain_mode_timer, recvLine,
                    currentTemp, currentRh, currentHI, currentReadCount,
                    daikin_boost, rht_control_on, autoOffTimerHour,
                    autoOnTimerHour, current_H_hours, currentACsetting,
                    currentFANsetting, last10minTemps, auto_pause,
                    auto_cooling, auto_reenable_rht, DHNeedAC,
                    timeElapsedDHCheck, rhtDisabled, current_temp_mode1,
                    current_fan_mode_on, ac_already_off, dispatch, quiet >>

V1_Init == Setup(AC_START_TEMP, ClockPause)

V1_Next == V1_Loop \/ V1_Handler \/ V1_Elapse

SpecV1 == V1_Init /\ [][V1_Next]_vars

----------------------------------------------------------------------------
(* V3: a remote command delivered while a tick is inside a dispatcher.     *)
(* delay() gives the system the chance to run the subscription handler;   *)
(* whether it does is for the platform to choose, so the handler may or   *)
(* may not run during each delay(IR_REPEAT_DELAY).  A handler that runs   *)
(* there runs to its end before the dispatcher goes on.                   *)

ReentryPayloads == { Txt_daikin_auto, Txt_daikin_off }

\* nothing waiting on Serial1, a reading outside the dehumidifier window
\* and one inside it
ReentryInputs ==
    { << >>, SensorLine(6500, 2651, 2420, 12),
      SensorLine(6500, 2650, 2420, 12) }

\* the dispatcher that records mode
DispatcherOf(mode) == CHOOSE fn \in Dispatchers : DispatchMode(fn) = mode

\* loop() from its start to its end, when it calls no dispatcher
ReentryTick ==
    /\ dispatch.pc = "idle"
    /\ \E bytes \in ReentryInputs :
          \E s \in { V3_loop(Cur, clockHour, bytes) } :
              /\ ~SentModeCommand(s.serialOut)
              /\ Commit(s, "loop")

\* loop() from its start to the call of the dispatcher that its
\* environmental control has chosen
ReentryTickCall ==
    /\ dispatch.pc = "idle"
    /\ \E bytes \in ReentryInputs :
          \E s \in { V3_loop(Cur, clockHour, bytes) } :
              /\ "control" \in s.fired
              /\ "autoOn" \notin s.fired /\ "autoOff" \notin s.fired
              /\ SentModeCommand(s.serialOut)
              /\ CommitGlobals(
                     [s EXCEPT
                        !.currentMode = currentMode,
                        !.elapsed_remain_mode_timer =
                            elapsed_remain_mode_timer,
                        !.serialOut =
                            SubSeq(@, 1, Len(@) - IR_REPEAT)], "loop")
              /\ dispatch' = [fn |-> DispatcherOf(s.currentMode),
                              pc |-> "println", repeat |-> 0,
                              delayed |-> 0]

\* myHandler() called from within delay(IR_REPEAT_DELAY) of the dispatcher;
\* at most one remote command arrives while one dispatcher runs
ReentryDeliver ==
    /\ dispatch.pc = "delay"
    /\ "nested" \notin fired
    /\ \E ingredient \in ReentryPayloads :
          \E s \in { V3_myHandler(
                         Mark([Cur EXCEPT !.serialOut = serialOut],
                              "nested"), ingredient) } :
              Commit(s, "myHandler")

\* delay(IR_REPEAT_DELAY); repeat++; the test of the for loop (V3 has no
\* timeElapsedDHCheck)
ReentryDelay ==
    /\ dispatch.pc = "delay"
    /\ elapsed_remain_mode_timer' =
           Later(elapsed_remain_mode_timer, IR_REPEAT_DELAY)
    /\ dispatch' = [dispatch EXCEPT
                       !.delayed = @ + IR_REPEAT_DELAY,
                       !.repeat = @ + 1,
                       !.pc = IF RepeatTest(dispatch.repeat + 1)
                              THEN "println" ELSE "set"]
    /\ UNCHANGED << currentMode, timeElapsedDHCheck, serialOut, modeBefore,
                    lastOp >>
    /\ DispatchKeeps

\* myHandler() called between two passes of loop()
ReentryHandler ==
    /\ dispatch.pc = "idle"
    /\ \E ingredient \in ReentryPayloads :
          \E s \in { V3_myHandler(Cur, ingredient) } :
              Commit(s, "myHandler")

ReentryElapse ==
    /\ dispatch.pc = "idle"
    /\ Elapse(ClockHHours, StepMs, FALSE)

ReentryInit == Setup(AC_START_TEMP, ClockHHours)

ReentryNext ==
    \/ ReentryTick \/ ReentryTickCall
    \/ DispatchPrintln \/ ReentryDelay \/ DispatchSet
    \/ ReentryDeliver \/ ReentryHandler \/ ReentryElapse

SpecV3Reentry == ReentryInit /\ [][ReentryNext]_vars

----------------------------------------------------------------------------
(* V1: the bypass of the on-off timer in an extreme condition.             *)

\* the time the on-off timer keeps a mode, in milliseconds
V1_KeepMs == KEEP_ONOFF_TIMER * MS_PER_MINUTE

\* the extreme condition as the tick tests it after its readings are in
V1_ExtremeNow ==
    \/ currentMode = MODE_OFF /\ currentHI' >= V1_HEAT_INDEX_TOO_HIGH
    \/ /\ currentMode = MODE_DEHUMIDIFIER
       /\ currentTemp' <= IF V1_offOK(clockHour, clockMinute)
                          THEN V1_TEMP_TOO_LOW_MODE2
                          ELSE V1_TEMP_TOO_LOW_MODE1

\* C31 as stated: in V1, with no remote command handled since the last
\* mode command of a tick, a tick dispatches a mode command less than
\* KEEP_ONOFF_TIMER minutes after that command only if the extreme
\* condition bypass has maximized the on-off timer in between, and then
\* the two commands are still at least 60 000 ms apart.
C31_Original ==
    [][(/\ lastOp' = "loop" /\ SentModeCommand(serialOut')
        /\ lastTickCommand.ago < V1_KeepMs
        /\ lastTickCommand.dwellSetBy # "remote")
       => /\ lastTickCommand.dwellSetBy = "bypass"
          /\ lastTickCommand.ago >= MS_PER_MINUTE]_vars

\* C31, amended: in V1 a tick maximizes the on-off timer only through the
\* bypass, which needs the extreme condition (mode Off with heat index >=
\* 27.50, or mode Dehumidify with temperature <= the too-low threshold) and
\* 60 000 ms or more on the extreme-condition timer, and which restarts
\* that timer; and a tick dispatches a mode command less than
\* KEEP_ONOFF_TIMER minutes after the last mode command of a tick only if
\* it is the must-off stop, or the bypass has maximized the on-off timer
\* since, or daikin-auto has.
C31_BypassOrMustOff ==
    [][lastOp' = "loop"
       => /\ "bypass" \in fired'
                => /\ V1_ExtremeNow
                   /\ elapsed_exterem_cond_timer >= MS_PER_MINUTE
                   /\ elapsed_exterem_cond_timer' = 0
          /\ (elapsed_keep_onoff_timer' > elapsed_keep_onoff_timer)
                => "bypass" \in fired'
          /\ (SentModeCommand(serialOut') /\ lastTickCommand.ago < V1_KeepMs)
                => \/ "mustOff" \in fired'
                   \/ lastTickCommand.dwellSetBy \in {"bypass", "remote"}]_vars

\* a tick has taken the bypass right after the tick that dispatched
\* Dehumidify: the on-off timer is at its maximum no time after the command
C31_Witness ==
    /\ lastOp = "loop" /\ "bypass" \in fired
    /\ currentMode = MODE_DEHUMIDIFIER
    /\ elapsed_keep_onoff_timer = V1_KeepMs
    /\ elapsed_exterem_cond_timer = 0
    /\ lastTickCommand = [ago |-> 0, dwellSetBy |-> "bypass"]

----------------------------------------------------------------------------
(* V5: the order of the temperature history.                               *)

----------------------------------------------------------------------------
(* V3: boost and the H hours.                                              *)

\* the set-point tokens and the fan tokens
SetPointTokens == { AttToken(t) : t \in 22..26 }

FanTokens == { FanToken(f) : f \in 1..6 }

\* C33: in V3, a tick that begins with boost on and ends with boost on (no
\* schedule switched it off) transmits no mode token, no set-point token
\* (att..) and no fan token (atf..).
C33_BoostSendsNothing ==
    [][(lastOp' = "loop" /\ daikin_boost /\ daikin_boost')
       => \A i \in 1..Len(serialOut') :
             serialOut'[i] \notin ModeTokens \cup SetPointTokens \cup FanTokens]_vars

----------------------------------------------------------------------------
(* V7 and the schedule: the clock goes through the hours of the day, and   *)
(* loop() runs at least once in every hour.                                *)

\* Time.hour() is 0..23; the clock of this model shows the full hours
HoursOfDay == [i \in 1..24 |-> [h |-> i - 1, m |-> 0]]

\* an auto-off-<x> payload of 9 characters, in and out of the range of
\* hours, and the two commands that switch auto-control
Sched_Payloads ==
    { Txt_auto_off, WithNumber(Txt_auto_off, 4), WithNumber(Txt_auto_off, 24),
      WithNumber(Txt_auto_off, 30), Txt_daikin_auto, Txt_cool_on \o FmtInt(24) }

\* loop() with a sensor line waiting on Serial1
Sched_Loop ==
    \E bytes \in { SensorLine(6000, 2700, 2800, 12) } :
        \E s \in { V7_loop(Cur, clockHour, clockMinute, bytes) } :
            Commit(s, "loop")

\* loop() with nothing waiting on Serial1
Sched_IdleLoop ==
    \E s \in { V7_loop(Cur, clockHour, clockMinute, << >>) } :
        Commit(s, "loop")

Sched_Handler ==
    \E ingredient \in Sched_Payloads :
        \E s \in { V7_myHandler(Cur, ingredient) } : Commit(s, "myHandler")

\* the next hour begins, after loop() has run in this one
Sched_NextHour ==
    /\ lastOp = "loop"
    /\ clockHour' = (clockHour + 1) % 24
    /\ clockMinute' = 0
    /\ elapsed_remain_mode_timer' =
           Later(elapsed_remain_mode_timer, 60 * MS_PER_MINUTE)
    /\ timeElapsedDHCheck' = Later(timeElapsedDHCheck, 60 * MS_PER_MINUTE)
    /\ serialIn' = << >>
    /\ serialOut' = << >>
    /\ fired' = {}
    /\ modeBefore' = currentMode
    /\ quietBefore' = quiet
    /\ lastOp' = "elapse"
    /\ UNCHANGED << currentMode, recvLine, currentTemp, currentRh, currentHI,
                    currentReadCount, daikin_boost, rht_control_on,
                    autoOffTimerHour, autoOnTimerHour, current_H_hours,
                    currentACsetting, currentFANsetting, last10minTemps,
                    auto_pause, auto_cooling, auto_reenable_rht, DHNeedAC,
                    dispatch, quiet, lastTickCommand >>
    /\ UNCHANGED Sketch1Globals

Sched_Init == Setup(V7_AC_START_TEMP, HoursOfDay)

Sched_Next == Sched_Loop \/ Sched_IdleLoop \/ Sched_Handler \/ Sched_NextHour

SpecV7Sched == Sched_Init /\ [][Sched_Next]_vars

\* loop() keeps running, and the hours keep passing however many remote
\* commands arrive (each hour begins after a loop() of the hour before)
SpecV7SchedFair ==
    SpecV7Sched /\ WF_vars(Sched_IdleLoop) /\ SF_vars(Sched_NextHour)

----------------------------------------------------------------------------
(* V7: the frame of auto-off-<hour>.                                       *)

----------------------------------------------------------------------------
(* V3, V5: boost and auto-control.                                         *)

\* C35: in V3 (and, by the same formula under SpecV5, in V5), in every
\* reachable state boost implies auto-control: daikin_boost is true only
\* while rht_control_on is true.
C35_BoostImpliesControl == daikin_boost => rht_control_on

\* boost is on after a tick, with the auto off timer armed for the next
\* hour of the clock
C35_Witness ==
    /\ lastOp = "loop" /\ daikin_boost /\ rht_control_on
    /\ currentMode = MODE_COOLING
    /\ autoOffTimerHour = 3 /\ clockHour = 2

----------------------------------------------------------------------------
(* V3: the recorded mode and the mode last commanded.                      *)

\* the mode a mode token commands
ModeOfToken(token) ==
    CASE token = "atc1" -> MODE_COOLING
      [] token = "atm1" -> MODE_DEHUMIDIFIER
      [] token = "ate1" -> MODE_FAN
      [] OTHER -> MODE_OFF

\* the mode of the last mode command among the tokens out
LastCommanded(out) ==
    LET last == CHOOSE i \in 1..Len(out) :
                    /\ out[i] \in ModeTokens
                    /\ \A j \in (i + 1)..Len(out) : out[j] \notin ModeTokens
    IN ModeOfToken(out[last])

\* C36 as stated, step by step: in V3 the recorded mode is Off at restart,
\* an operation that dispatches mode commands ends with the recorded mode
\* of the last one, and an operation that dispatches none leaves the
\* recorded mode as it is; so in every reachable state currentMode is the
\* mode of the most recently dispatched mode command.
C36_Original ==
    [][/\ SentModeCommand(serialOut')
             => currentMode' = LastCommanded(serialOut')
       /\ ~SentModeCommand(serialOut') => currentMode' = currentMode]_vars

\* C36, amended: in V3 an operation that dispatches mode commands ends with
\* the recorded mode of the last one; an operation that dispatches none
\* either leaves the recorded mode as it is or is a daikin-auto command or
\* a firing of the auto-on schedule, which record Off without commanding
\* it, with auto-control on and the dwell timer at REMAIN_MODE_TIME so that
\* the next decision commands the mode afresh.
C36_RecordedOrAssumedOff ==
    [][/\ SentModeCommand(serialOut')
             => currentMode' = LastCommanded(serialOut')
       /\ (~SentModeCommand(serialOut') /\ currentMode' # currentMode)
             => /\ currentMode' = MODE_OFF
                /\ rht_control_on'
                /\ elapsed_remain_mode_timer' =
                       V3_REMAIN_MODE_TIME * MS_PER_MINUTE
                /\ lastOp' = "myHandler" \/ "autoOn" \in fired']_vars

\* daikin-auto was handled while boost was on and the unit cooling: the
\* recorded mode is Off, boost is off, and no mode command was sent
C36_Witness ==
    /\ lastOp = "myHandler" /\ modeBefore = MODE_COOLING
    /\ currentMode = MODE_OFF /\ rht_control_on /\ ~daikin_boost
    /\ serialOut = << "att25", "atf6" >>

----------------------------------------------------------------------------
(* V7: does an accepted auto-off hour fire?                                *)

\* the tick has fired the auto off timer: auto-control is disabled, Off was
\* dispatched and the slot is cleared
AutoOffFired ==
    /\ lastOp = "loop" /\ "autoOff" \in fired
    /\ ~rht_control_on /\ currentMode = MODE_OFF
    /\ Count(serialOut, "atd0") = IR_REPEAT
    /\ autoOffTimerHour = TIMER_DISABLED

\* a remote command has written the slot
SlotRewritten == lastOp = "myHandler" /\ "setAutoOff" \in fired

\* C37: in V7, with the clock going through the hours of the day and a
\* tick in every hour, an auto off slot that holds an accepted hour h in
\* 0..24 leads to the tick that disables auto-control, dispatches Off and
\* clears the slot, unless a later remote command writes the slot.
C37_AcceptedFires ==
    \A h \in 0..24 :
        (autoOffTimerHour = h) ~> (AutoOffFired \/ SlotRewritten)

\* the same for the hours the clock shows, 0..23
C37_ClockHoursFire ==
    \A h \in 0..23 :
        (autoOffTimerHour = h) ~> (AutoOffFired \/ SlotRewritten)

----------------------------------------------------------------------------
(* V3: the set-point and the H hours.                                      *)

\* the last set-point token among the tokens out
LastSetPoint(out) ==
    LET last == CHOOSE i \in 1..Len(out) :
                    /\ out[i] \in SetPointTokens
                    /\ \A j \in (i + 1)..Len(out) : out[j] \notin SetPointTokens
    IN out[last]

\* C38: in V3, after a remote command and the tick that follows it, if
\* auto-control is enabled and boost is off, the last set-point token the
\* two have transmitted is att26 while the clock is inside the H hours
\* 03:00..05:59 and att25 outside.
C38_SetPointMatchesWindow ==
    [][(/\ lastOp = "myHandler" /\ lastOp' = "loop"
        /\ rht_control_on' /\ ~daikin_boost'
        /\ \E i \in 1..Len(serialOut \o serialOut') :
              (serialOut \o serialOut')[i] \in SetPointTokens)
       => LastSetPoint(serialOut \o serialOut') =
              IF hTempTime(clockHour) THEN "att26" ELSE "att25"]_vars

----------------------------------------------------------------------------
(* The RHT_Daikin_Ctrl module at the other end of the UART.                *)

\* the module after setup(): the Daikin settings, the IR commands sent (the
\* mode of each) and the response lines written
RHT_setup ==
    [daikin_temp |-> 24, daikin_fan |-> 6, ir |-> << >>, rsp |-> << >>]

\* the temperature an attN line sets, N = 18..29, or 0
RHT_TempOf(line) ==
    CASE line = "att18" -> 18 [] line = "att19" -> 19
      [] line = "att20" -> 20 [] line = "att21" -> 21
      [] line = "att22" -> 22 [] line = "att23" -> 23
      [] line = "att24" -> 24 [] line = "att25" -> 25
      [] line = "att26" -> 26 [] line = "att27" -> 27
      [] line = "att28" -> 28 [] line = "att29" -> 29
      [] OTHER -> 0

\* the fan speed an atfN line sets, N = 1..6, or 0
RHT_FanOf(line) ==
    CASE line = "atf1" -> 1 [] line = "atf2" -> 2
      [] line = "atf3" -> 3 [] line = "atf4" -> 4
      [] line = "atf5" -> 5 [] line = "atf6" -> 6
      [] OTHER -> 0

\* loop() of the module: the line is complete (0x0D was read)
RHT_Command(m, line) ==
    IF line = "at"
    THEN [m EXCEPT !.rsp = Append(@, ">OK")]
    ELSE IF line = "atrt"
    THEN [m EXCEPT !.rsp = Append(@, ">R=")]
    ELSE IF line = "atc1"
    THEN [m EXCEPT !.ir = Append(@, MODE_COOLING), !.rsp = Append(@, ">OK")]
    ELSE IF line = "atm1"
    THEN [m EXCEPT !.ir = Append(@, MODE_DEHUMIDIFIER),
                   !.rsp = Append(@, ">OK")]
    ELSE IF line = "atd0"
    THEN [m EXCEPT !.ir = Append(@, MODE_OFF), !.rsp = Append(@, ">OK")]
    ELSE IF RHT_FanOf(line) # 0
    THEN [m EXCEPT !.daikin_fan = RHT_FanOf(line),
                   !.rsp = Append(@, ">OK")]
    ELSE IF RHT_TempOf(line) # 0
    THEN [m EXCEPT !.daikin_temp = RHT_TempOf(line),
                   !.rsp = Append(@, ">OK")]
    ELSE [m EXCEPT !.rsp = Append(@, ">Err")]

\* the module after the lines out, one println of the controller each
RECURSIVE RHT_Run(_, _)
RHT_Run(m, out) ==
    IF out = << >> THEN m
    ELSE RHT_Run(RHT_Command(m, Head(out)), Tail(out))

\* C39: every token a dispatcher of the controller has transmitted is
\* answered by the module with a line other than >Err, and when a
\* dispatcher has returned and the mode is recorded, the module has sent
\* the IR command of that mode, once for each transmission.
C39_ModuleRecognizes ==
    \A m \in { RHT_Run(RHT_setup, serialOut) } :
        /\ \A i \in 1..Len(m.rsp) : m.rsp[i] # ">Err"
        /\ (lastOp \in Dispatchers /\ dispatch.pc = "idle")
              => m.ir = [i \in 1..IR_REPEAT |-> currentMode]

----------------------------------------------------------------------------
(* The state between a restart and the first remote command.               *)

\* the defaults of the globals and of setup(): mode off, the automatic
\* control disabled (rht_control_on false, and rhtDisabled true in the
\* variant that has the overall switch), boost off, both schedule slots
\* disabled, and none of the flags that let a tick enable the control
C40_Defaults ==
    /\ currentMode = MODE_OFF
    /\ ~rht_control_on
    /\ rhtDisabled
    /\ ~daikin_boost
    /\ autoOffTimerHour = TIMER_DISABLED
    /\ autoOnTimerHour = TIMER_DISABLED
    /\ ~auto_pause
    /\ ~auto_cooling
    /\ ~auto_reenable_rht
    /\ ~DHNeedAC

\* C40: from the restart until the first remote command is handled the
\* state stays at its all-off defaults and no mode command is dispatched.
\* The restart leaves the defaults, and every step that is not the handling
\* of a remote command (a tick with any sensor bytes, the passing of time
\* to any clock value) keeps the defaults and writes no mode token.
C40_DefaultsUntilCommand ==
    /\ lastOp = "setup" => C40_Defaults
    /\ [][(C40_Defaults /\ lastOp' # "myHandler")
              => (C40_Defaults' /\ ~SentModeCommand(serialOut'))]_vars

\* a tick at the defaults that has a complete hot reading, taken when the
\* time a mode has to remain has passed
C40_Witness ==
    /\ lastOp = "loop"
    /\ C40_Defaults
    /\ currentReadCount > 0
    /\ currentHI >= V5_HI_HIGH_H
    /\ elapsed_remain_mode_timer >= V5_REMAIN_MODE_TIME * MS_PER_MINUTE
    /\ ~SentModeCommand(serialOut)

====
